---- MODULE Spec2Model ----
(***************************************************************************)
(* Model of the catalog builder of the magic_mobi calibre plugin           *)
(* (src/src/generate.py, class CatalogBuilder, and its caller              *)
(* src/src/__init__.py).                                                   *)
(*                                                                         *)
(* One CatalogBuilder is constructed per run (__init__), then              *)
(* build_sources() walks its stages in order.  The thumbnail archive       *)
(* (thumbs.zip) is the only state that outlives a run.                     *)
(*                                                                         *)
(*   Spec        one build over every small record set, first run of a     *)
(*               machine (no thumbnail archive yet)                        *)
(*   SpecThumbs  repeated builds over the persistent thumbnail archive     *)
(*   SpecAuthors one build over record sets of single and joint authors    *)
(*   SpecGenres  one build in libraries of every set of tags               *)
(*   SpecProfiles repeated builds for output profiles of different dpi     *)
(*   SpecAborts  repeated builds at one width, any of which may be aborted *)
(*               at the end of the thumbnail pass                          *)
(***************************************************************************)
EXTENDS Integers, Sequences, FiniteSets, TLC

(***************************************************************************)
(* Bounds of the model                                                     *)
(***************************************************************************)
\* largest record set handed to a build
MaxBooks == 2
\* number of builds (CatalogBuilder constructions) in one behaviour
MaxRuns == 2
\* largest record set drawn from the library of single and joint authors
MaxAuthorBooks == 3
\* number of builds in a behaviour of builds that may be aborted
MaxAbortRuns == 3

(***************************************************************************)
(* Input domains                                                           *)
(***************************************************************************)
\* display names of authors; the author_sort value is taken equal to it
AuthorNames == {"Adams", "Brin"}

\* series names; NoSeries is Python's None
NoSeries == "None"
SeriesNames == {"Dune"}

\* db.all_tags(): every tag of the library
AllTags == {"A&B", "aampersandb"}

\* the tags of the libraries whose tags vary: three of them differ by a
\* blank or a hyphen, one is written with an HTML entity, one is the
\* excluded tag
TagPool == {"Sci-Fi", "Sci Fi", "SciFi", "R&amp;D", "Drama", "Catalog"}

\* libraries of tags
TagLibraries == SUBSET TagPool

\* opts.output_profile as MAGIC_MOBI.run leaves it: short names of two
\* output profiles of different dpi
OutputProfiles == {"kindle", "kindle_dx"}

\* opts.exclusion_tags: the tag of the settings dialog, or another one
ExclusionTagLists == {{"Catalog"}, {"Drama"}}

\* tag lists a record may carry
TagSets == {{}, {"A&B"}, {"aampersandb"}}

\* opts.thumb_width as handed to CatalogBuilder: run() rewrites it as
\* "%.2f" % float(...) clipped to [1.0, 2.0], or as "1.0" when the value
\* does not parse
ThumbWidthTexts == {"1.0", "1.00", "2.00"}

\* what the archive read yields when the archive holds no width, or the
\* archive cannot be read
NoCachedWidth == "-1"

\* float(text), in hundredths
FloatOf(text) ==
    CASE text = "1.0"  -> 100
      [] text = "1.00" -> 100
      [] text = "2.00" -> 200
      [] text = "-1"   -> 0 - 100

\* What generate_thumbnail finds when it reaches for title['cover']:
\*   missing  the record has no 'cover' key (title['cover'] raises KeyError),
\*            or the key names a file that is gone (open() raises IOError)
\*   bad      the file is there, its bytes are no image (thumbnail() raises)
\*   ok       the file is there and renders
\* crc stands for hex(zlib.crc32(data)) of the bytes read.
CoverStates ==
    { [kind |-> "missing", crc |-> "-"],
      [kind |-> "bad", crc |-> "0xbad"],
      [kind |-> "ok", crc |-> "0xc1"], [kind |-> "ok", crc |-> "0xc2"] }

\* covers of a library without cover files
NoCovers == { [kind |-> "missing", crc |-> "-"] }

\* covers of a library in which every cover file renders
SoundCovers == { [kind |-> "missing", crc |-> "-"], [kind |-> "ok", crc |-> "0xc1"] }

\* crc of calibre's stock cover I('book.png'), copied to DefaultCover.png
DefaultCrc == "0xdef"

(***************************************************************************)
(* Sequence helpers                                                        *)
(***************************************************************************)
Range(s) == { s[i] : i \in 1..Len(s) }

RECURSIVE InsertSorted(_, _)
\* insert the pair p = <<key, item>> behind every pair whose key is not
\* greater, which keeps the sort stable
InsertSorted(s, p) ==
    IF s = <<>> THEN <<p>>
    ELSE IF p[1] < Head(s)[1] THEN <<p>> \o s
         ELSE <<Head(s)>> \o InsertSorted(Tail(s), p)

RECURSIVE SortPairs(_)
SortPairs(s) ==
    IF s = <<>> THEN <<>>
    ELSE InsertSorted(SortPairs(SubSeq(s, 1, Len(s) - 1)), s[Len(s)])

\* Python's sorted(items, key=...), stable; keys[i] is the key of items[i]
SortedBy(items, keys) ==
    LET pairs == [i \in 1..Len(items) |-> <<keys[i], items[i]>>]
        done == SortPairs(pairs)
    IN  [i \in 1..Len(items) |-> done[i][2]]

RECURSIVE SelectSeq2(_, _)
\* [i for i in books if i[field]]
SelectSeq2(s, keep) ==
    IF s = <<>> THEN <<>>
    ELSE IF Head(s) \in keep THEN <<Head(s)>> \o SelectSeq2(Tail(s), keep)
         ELSE SelectSeq2(Tail(s), keep)

\* order of strings used for the sort keys of the model's small domains
StrRank(x) ==
    CASE x = "None" -> 0
      [] x = "A&B" -> 1
      [] x = "aampersandb" -> 2
      [] x = "Adams" -> 3
      [] x = "Brin" -> 4
      [] x = "Dune" -> 5

(***************************************************************************)
(* Text                                                                    *)
(***************************************************************************)
\* the characters of the model's texts, in code point order
Alphabet == " !&,-./0123456789:;ABCDEFGHIJKLMNOPQRSTUVWXYZ_abcdefghijklmnopqrstuvwxyz~"

Chars == { SubSeq(Alphabet, i, i) : i \in 1..Len(Alphabet) }

\* ord(c), as the place of c in Alphabet
CharCode == [c \in Chars |-> CHOOSE i \in 1..Len(Alphabet) : SubSeq(Alphabet, i, i) = c]

Digits == { SubSeq("0123456789", i, i) : i \in 1..10 }

UpperLetters == "ABCDEFGHIJKLMNOPQRSTUVWXYZ"
LowerLetters == "abcdefghijklmnopqrstuvwxyz"

Letters == { SubSeq(UpperLetters, i, i) : i \in 1..26 } \cup
           { SubSeq(LowerLetters, i, i) : i \in 1..26 }

ToUpper ==
    [c \in Chars |->
        IF \E i \in 1..26 : SubSeq(LowerLetters, i, i) = c
        THEN LET i == CHOOSE i \in 1..26 : SubSeq(LowerLetters, i, i) = c
             IN  SubSeq(UpperLetters, i, i)
        ELSE c]

ToLower ==
    [c \in Chars |->
        IF \E i \in 1..26 : SubSeq(UpperLetters, i, i) = c
        THEN LET i == CHOOSE i \in 1..26 : SubSeq(UpperLetters, i, i) = c
             IN  SubSeq(LowerLetters, i, i)
        ELSE c]

RECURSIVE MapChars(_, _)
MapChars(table, text) ==
    IF text = "" THEN "" ELSE table[Head(text)] \o MapChars(table, Tail(text))

\* str.upper(), str.lower()
upper(text) == MapChars(ToUpper, text)
lower(text) == MapChars(ToLower, text)

\* calibre.utils.icu.capitalize: the first character in upper case, the
\* others in lower case
capitalize(text) ==
    IF text = "" THEN "" ELSE ToUpper[Head(text)] \o lower(Tail(text))

RECURSIVE Spaces(_)
Spaces(n) == IF n <= 0 THEN "" ELSE " " \o Spaces(n - 1)

\* '{:<width}'.format(text): padded on the right, never cut
ljust(text, width) == text \o Spaces(width - Len(text))

\* '%<width>s' % text: padded on the left, never cut
rjust(text, width) == Spaces(width - Len(text)) \o text

RECURSIVE SplitFrom(_, _, _)
\* str.split(): the words between runs of blanks; word is the open word
SplitFrom(text, word, acc) ==
    IF text = ""
    THEN IF word = "" THEN acc ELSE Append(acc, word)
    ELSE IF Head(text) = " "
         THEN SplitFrom(Tail(text), "", IF word = "" THEN acc ELSE Append(acc, word))
         ELSE SplitFrom(Tail(text), word \o Head(text), acc)

split(text) == SplitFrom(text, "", <<>>)

RECURSIVE join(_, _)
\* sep.join(words)
join(sep, words) ==
    IF words = <<>> THEN ""
    ELSE IF Len(words) = 1 THEN words[1]
         ELSE words[1] \o sep \o join(sep, Tail(words))

RECURSIVE ReplaceAll(_, _, _)
\* str.replace(old, new)
ReplaceAll(text, old, new) ==
    IF Len(text) < Len(old) THEN text
    ELSE IF SubSeq(text, 1, Len(old)) = old
         THEN new \o ReplaceAll(SubSeq(text, Len(old) + 1, Len(text)), old, new)
         ELSE Head(text) \o ReplaceAll(Tail(text), old, new)

RECURSIVE TextLess(_, _)
\* a < b for two texts: by the first character that differs, a proper
\* prefix first.  Stands for the order of sort_key(a) and sort_key(b).
TextLess(a, b) ==
    IF b = "" THEN FALSE
    ELSE IF a = "" THEN TRUE
         ELSE IF Head(a) = Head(b) THEN TextLess(Tail(a), Tail(b))
              ELSE CharCode[Head(a)] < CharCode[Head(b)]

\* the place of every key among the keys of a list, which sorts as the keys
KeyRanks(keys) ==
    LET ks == keys \o <<>>
    IN  [i \in 1..Len(ks) |->
            Cardinality({ k \in Range(ks) : TextLess(k, ks[i]) })] \o <<>>

(***************************************************************************)
(* Generated files                                                         *)
(***************************************************************************)
\* a generated file; its name is prefix + name + ext
File(dir, prefix, name, ext) == [dir |-> dir, prefix |-> prefix, name |-> name, ext |-> ext]

Href(f) == f.dir \o "/" \o f.prefix \o f.name \o f.ext

ByAuthorFile == File("content", "ByAuthor", "", ".html")
BySeriesFile == File("content", "BySeries", "", ".html")
GenreFile(tag) == File("content", "Genre_", tag, ".html")
BookFile(id) == File("content", "book_", ToString(id), ".html")
ThumbFile(id) == File("images", "thumbnail_", ToString(id), ".jpg")
DefaultThumbFile == File("images", "thumbnail_", "default", ".jpg")

(***************************************************************************)
(* The thumbnail archive (thumbs.zip)                                      *)
(***************************************************************************)
\* One member of the zip archive.  kind "marker" is "Catalog Thumbs
\* Archive", kind "width" is 'thumb_width' (text: the width as written),
\* kind "thumb" is uuid + cover_crc (px: the width the thumb was rendered at).
NoPixels == <<"", 0>>

Member(kind, uuid, crc, text, px) ==
    [kind |-> kind, uuid |-> uuid, crc |-> crc, text |-> text, px |-> px]

MarkerMember == Member("marker", 0, "-", "", NoPixels)
WidthMember(text) == Member("width", 0, "-", text, NoPixels)
ThumbMember(uuid, crc, px) == Member("thumb", uuid, crc, "", px)

\* ZipFile(path, mode='w'); writestr("Catalog Thumbs Archive", '')
FreshArchive == [exists |-> TRUE, readable |-> TRUE, members |-> <<MarkerMember>>]

NoArchive == [exists |-> FALSE, readable |-> TRUE, members |-> <<>>]

\* positions of the members with a name: a zip archive may hold several
\* members of one name, writestr never replaces
Positions(members, kind, uuid, crc) ==
    { i \in 1..Len(members) :
        /\ members[i].kind = kind
        /\ members[i].uuid = uuid
        /\ members[i].crc = crc }

HasMember(members, kind, uuid, crc) == Positions(members, kind, uuid, crc) # {}

Latest(S) == CHOOSE i \in S : \A j \in S : j <= i

\* zf.read(name): the member written last under that name
ReadMember(members, kind, uuid, crc) ==
    members[Latest(Positions(members, kind, uuid, crc))]

\* calculate_thumbnail_dimensions: self.thumb_width = x.dpi *
\* float(opts.thumb_width) for the output profile x, self.thumb_height is
\* 1.33 times as much.  The product is kept as the pair of its factors, the
\* dpi under the name of its profile: the profiles of the model differ in
\* dpi.
ThumbPixels(output_profile, widthText) == <<output_profile, FloatOf(widthText)>>

\* confirm_thumbs_archive of a builder that notes the width change and
\* keeps the archive.
ConfirmKeepingEntries(arch, widthText) ==
    IF ~arch.exists
    THEN [archive |-> FreshArchive, cached |-> NoCachedWidth,
          unreadable |-> FALSE, cleared |-> FALSE]
    ELSE LET unreadable == ~arch.readable
             cached == IF unreadable THEN NoCachedWidth
                       ELSE IF HasMember(arch.members, "width", 0, "-")
                            THEN ReadMember(arch.members, "width", 0, "-").text
                            ELSE NoCachedWidth
         IN  [archive |-> IF unreadable THEN FreshArchive ELSE arch, cached |-> cached,
              unreadable |-> unreadable,
              cleared |-> FloatOf(cached) # FloatOf(widthText)]

\* confirm_thumbs_archive: the archive it leaves and what it found.
\*   cached      the text read from 'thumb_width', "-1" when there is none
\*   unreadable  ZipFile(mode='r') raised and the file was removed
\*   cleared     the archive was written anew (mode='w')
ConfirmThumbsArchive(arch, widthText) ==
    IF ~arch.exists
    THEN [archive |-> FreshArchive, cached |-> NoCachedWidth,
          unreadable |-> FALSE, cleared |-> FALSE]
    ELSE LET unreadable == ~arch.readable
             cached == IF unreadable THEN NoCachedWidth
                       ELSE IF HasMember(arch.members, "width", 0, "-")
                            THEN ReadMember(arch.members, "width", 0, "-").text
                            ELSE NoCachedWidth
             \* os.remove(self.thumbs_path) in the except branch
             afterRemove == IF unreadable THEN NoArchive ELSE arch
         IN  IF FloatOf(cached) # FloatOf(widthText)
             THEN [archive |-> FreshArchive, cached |-> cached,
                   unreadable |-> unreadable, cleared |-> TRUE]
             ELSE [archive |-> afterRemove, cached |-> cached,
                   unreadable |-> unreadable, cleared |-> FALSE]

\* generate_thumbnail of a builder that never asks the archive for the
\* thumb.
GenerateThumbnailWithoutLookup(arch, uuid, cover, px, openRead, openAppend) ==
    LET none == [raised |-> FALSE, opened |-> FALSE, hit |-> FALSE, rendered |-> FALSE,
                 stored |-> FALSE, px |-> NoPixels, archive |-> arch,
                 uuid |-> uuid, crc |-> cover.crc, before |-> arch.members]
        zf == arch.exists /\ arch.readable /\ openRead
    IN  IF cover.kind = "missing"
        THEN [none EXCEPT !.raised = TRUE]
        ELSE IF cover.kind = "bad"
        THEN [none EXCEPT !.opened = zf, !.raised = TRUE]
        ELSE IF zf /\ openAppend
        THEN [none EXCEPT !.opened = TRUE, !.rendered = TRUE, !.stored = TRUE, !.px = px,
                          !.archive = [arch EXCEPT !.members =
                                          Append(@, ThumbMember(uuid, cover.crc, px))]]
        ELSE [none EXCEPT !.opened = zf, !.rendered = TRUE, !.px = px]

\* generate_thumbnail of a builder that writes the thumb to the archive
\* whether or not the archive could be read.
GenerateThumbnailStoringBlind(arch, uuid, cover, px, openRead, openAppend) ==
    LET none == [raised |-> FALSE, opened |-> FALSE, hit |-> FALSE, rendered |-> FALSE,
                 stored |-> FALSE, px |-> NoPixels, archive |-> arch,
                 uuid |-> uuid, crc |-> cover.crc, before |-> arch.members]
        zf == arch.exists /\ arch.readable /\ openRead
    IN  IF cover.kind = "missing"
        THEN [none EXCEPT !.raised = TRUE]
        ELSE IF zf /\ HasMember(arch.members, "thumb", uuid, cover.crc)
        THEN [none EXCEPT !.opened = TRUE, !.hit = TRUE,
                          !.px = ReadMember(arch.members, "thumb", uuid, cover.crc).px]
        ELSE IF cover.kind = "bad"
        THEN [none EXCEPT !.opened = zf, !.raised = TRUE]
        ELSE IF arch.exists /\ arch.readable /\ openAppend
        THEN [none EXCEPT !.opened = zf, !.rendered = TRUE, !.stored = TRUE, !.px = px,
                          !.archive = [arch EXCEPT !.members =
                                          Append(@, ThumbMember(uuid, cover.crc, px))]]
        ELSE [none EXCEPT !.opened = zf, !.rendered = TRUE, !.px = px]

\* One call of generate_thumbnail(title, image_dir, thumb_file).
\*   openRead, openAppend  whether _open_archive('r') and _open_archive('a')
\*                         return an archive (they swallow every exception)
\* Result:
\*   raised    the call raised (no cover to open, or thumbnail() failed)
\*   opened    the archive was open for the lookup
\*   hit       the thumb was served from the archive
\*   rendered  thumbnail() produced the thumb
\*   stored    the thumb was written to the archive
\*   px        width of the thumb written to the images directory
GenerateThumbnail(arch, uuid, cover, px, openRead, openAppend) ==
    LET none == [raised |-> FALSE, opened |-> FALSE, hit |-> FALSE, rendered |-> FALSE,
                 stored |-> FALSE, px |-> NoPixels, archive |-> arch,
                 uuid |-> uuid, crc |-> cover.crc, before |-> arch.members]
        zf == arch.exists /\ arch.readable /\ openRead
    IN  IF cover.kind = "missing"
        THEN [none EXCEPT !.raised = TRUE]
        ELSE IF zf /\ HasMember(arch.members, "thumb", uuid, cover.crc)
        THEN [none EXCEPT !.opened = TRUE, !.hit = TRUE,
                          !.px = ReadMember(arch.members, "thumb", uuid, cover.crc).px]
        ELSE IF cover.kind = "bad"
        THEN [none EXCEPT !.opened = zf, !.raised = TRUE]
        ELSE IF zf /\ openAppend
        THEN [none EXCEPT !.opened = TRUE, !.rendered = TRUE, !.stored = TRUE, !.px = px,
                          !.archive = [arch EXCEPT !.members =
                                          Append(@, ThumbMember(uuid, cover.crc, px))]]
        ELSE [none EXCEPT !.opened = zf, !.rendered = TRUE, !.px = px]

\* the stock cover the fallback renders
DefaultCover == [kind |-> "ok", crc |-> DefaultCrc]

\* entries of self.error
ErrorEntry(kind, text, book) == [kind |-> kind, text |-> text, book |-> book]

\* The loop pass of a builder that puts the warning on self.error for
\* every title whose generate_thumbnail raised.
ThumbnailPassWarningAlways(st, title, cover, px, o1, o2, o3, o4) ==
    LET thumb_file == ThumbFile(title.id)
        first == GenerateThumbnail(st.archive, title.uuid, cover, px, o1, o2)
        valid_cover == ~first.raised
        error1 == IF first.raised
                  THEN (IF st.error = <<>>
                        THEN <<ErrorEntry("header", "Invalid cover files", 0)>>
                        ELSE st.error)
                       \o <<ErrorEntry("warning", "invalid cover file", title.id)>>
                  ELSE st.error
        again == first.raised /\ ~(DefaultThumbFile \in st.images)
        second == GenerateThumbnail(first.archive, title.uuid, DefaultCover, px, o3, o4)
        target == IF valid_cover THEN DefaultThumbFile ELSE thumb_file
    IN  IF ~first.raised
        THEN [archive |-> first.archive,
              thumbs |-> Append(st.thumbs, thumb_file),
              error |-> st.error,
              images |-> st.images \cup {thumb_file},
              cover_none |-> st.cover_none,
              calls |-> <<first>>]
        ELSE [archive |-> IF again THEN second.archive ELSE first.archive,
              thumbs |-> st.thumbs,
              error |-> error1,
              images |-> IF again THEN st.images \cup {target} ELSE st.images,
              cover_none |-> st.cover_none \cup {title.id},
              calls |-> IF again THEN <<first, second>> ELSE <<first>>]

\* One pass of the loop of generate_thumbnails over a title: the try, the
\* except, and the fallback to the default cover (images holds the files
\* of the images directory, cover_none the titles whose 'cover' was set to
\* None).
\*   st      [archive, thumbs, error, images, cover_none, calls] before
\*   title   the record
\*   cover   what title['cover'] yields
\*   o1, o2  outcomes of _open_archive('r'), ('a') in the first call
\*   o3, o4  the same in the fallback call
ThumbnailPass(st, title, cover, px, o1, o2, o3, o4) ==
    LET thumb_file == ThumbFile(title.id)
        first == GenerateThumbnail(st.archive, title.uuid, cover, px, o1, o2)
        valid_cover == ~(first.raised /\ cover.kind = "bad")
        error1 == IF first.raised /\ cover.kind = "bad"
                  THEN (IF st.error = <<>>
                        THEN <<ErrorEntry("header", "Invalid cover files", 0)>>
                        ELSE st.error)
                       \o <<ErrorEntry("warning", "invalid cover file", title.id)>>
                  ELSE st.error
        default_exists == DefaultThumbFile \in st.images
        \* a default thumb of this run is never older than DefaultCover.png,
        \* which is copied before the first default thumb is written
        again == first.raised /\ ~default_exists
        second == GenerateThumbnail(first.archive, title.uuid, DefaultCover, px, o3, o4)
        target == IF valid_cover THEN DefaultThumbFile ELSE thumb_file
    IN  IF ~first.raised
        THEN [archive |-> first.archive,
              thumbs |-> Append(st.thumbs, thumb_file),
              error |-> st.error,
              images |-> st.images \cup {thumb_file},
              cover_none |-> st.cover_none,
              calls |-> <<first>>]
        ELSE [archive |-> IF again THEN second.archive ELSE first.archive,
              thumbs |-> st.thumbs,
              error |-> error1,
              images |-> IF again THEN st.images \cup {target} ELSE st.images,
              cover_none |-> st.cover_none \cup {title.id},
              calls |-> IF again THEN <<first, second>> ELSE <<first>>]

(***************************************************************************)
(* Records and sorted views                                                *)
(***************************************************************************)
\* calibre.ebooks.metadata.title_sort in library order: a leading article
\* goes to the end
title_sort(title) ==
    LET words == split(title)
    IN  IF Len(words) > 1 /\ lower(words[1]) \in {"a", "an", "the"}
        THEN join(" ", Tail(words)) \o ", " \o words[1]
        ELSE title

RECURSIVE RemoveCommas(_)
\* word.replace(',', '')
RemoveCommas(word) ==
    IF word = "" THEN ""
    ELSE IF Head(word) = "," THEN RemoveCommas(Tail(word))
         ELSE Head(word) \o RemoveCommas(Tail(word))

RECURSIVE DigitPrefixLen(_)
\* re.search('[\D]', word).start(), len(word) when every character is a digit
DigitPrefixLen(word) ==
    IF word = "" \/ Head(word) \notin Digits THEN 0 ELSE 1 + DigitPrefixLen(Tail(word))

RECURSIVE StripZeros(_)
\* '%.0f' % float(digits): the digits without leading zeros
StripZeros(digits) ==
    IF Len(digits) > 1 /\ Head(digits) = "0" THEN StripZeros(Tail(digits)) ELSE digits

\* the width of '%10.0f'
NumberPad == 10

\* '%10.0f%s' % (float(word[:suffix.start()]), word[suffix.start():])
PadNumber(word) ==
    LET w == RemoveCommas(word)
        n == DigitPrefixLen(w)
    IN  rjust(StripZeros(SubSeq(w, 1, n)), NumberPad) \o SubSeq(w, n + 1, Len(w))

\* letter_or_symbol(char) != char
IsSymbol(char) == char \notin Letters

\* generate_sort_title, its branch for the first word
SortTitleFirstWord(word) ==
    LET w == IF Head(word) \in Digits THEN PadNumber(word) ELSE word
    IN  IF IsSymbol(Head(w))
           /\ (CharCode[Head(w)] > CharCode["A"]
               \/ (CharCode["9"] < CharCode[Head(w)] /\ CharCode[Head(w)] < CharCode["A"]))
        THEN <<"/", capitalize(w)>>
        ELSE <<capitalize(w)>>

\* generate_sort_title, its branch for the other words
SortTitleLaterWord(word) ==
    IF Head(word) \in Digits THEN PadNumber(word) ELSE word

generate_sort_title(title) ==
    LET title_words == split(title_sort(title))
    IN  IF title_words = <<>> THEN ""
        ELSE join(" ", SortTitleFirstWord(title_words[1]) \o
                       [i \in 1..(Len(title_words) - 1) |->
                            SortTitleLaterWord(title_words[i + 1])])

\* _kf_author_to_author_sort: the last token first
kf_author_to_author_sort(author) ==
    LET tokens == split(author)
        n == Len(tokens)
    IN  IF n = 0 THEN ""
        ELSE IF n = 1 THEN capitalize(tokens[1])
             ELSE capitalize(join(" ", <<tokens[n] \o ",">> \o SubSeq(tokens, 1, n - 1)))

\* calibre.ebooks.metadata.author_to_author_sort, method 'invert'
author_to_author_sort(author) ==
    LET tokens == split(author)
        n == Len(tokens)
    IN  IF n < 2 THEN author
        ELSE tokens[n] \o ", " \o join(" ", SubSeq(tokens, 1, n - 1))

\* series_index of every series book of the model: 1.0, written '%04d' and
\* the fraction of '%0.4f'
SeriesIndexText == "0001.0000"

\* one row of the database as fetch_books_to_catalog reads it; a blank
\* author_sort stands for a row without one
Fields(title, authors, authorSort, series, tags) ==
    [title |-> title, authors |-> authors, author_sort |-> authorSort,
     series |-> series, tags |-> tags]

\* convert_html_entities for a text whose only entity is '&amp;' (another
\* named entity makes the function raise TypeError, no text of the model
\* has one)
convert_html_entities(text) == ReplaceAll(text, "&amp;", "&")

\* one entry of books_to_catalog (_populate_title); this_title['genres']
\* is this_title['tags']
Record(id, fields) ==
    LET author == join(" &amp; ", fields.authors)
        title == convert_html_entities(fields.title)
    IN  [id |-> id, uuid |-> id,
         title |-> title,
         title_sort |-> generate_sort_title(title),
         authors |-> fields.authors,
         author |-> author,
         author_sort |-> IF fields.author_sort # "" THEN fields.author_sort
                         ELSE kf_author_to_author_sort(author),
         series |-> fields.series,
         tags |-> { convert_html_entities(tag) : tag \in fields.tags }]

\* the title of the i-th row of the libraries whose titles do not matter
BookTitle(i) == "Book " \o ToString(i)

\* record sets of a library with authors, series and tags; search_sort_db
\* returns them sorted by title (opts.sort_by = 'title')
RichRecordSets ==
    UNION { { [i \in 1..n |-> Fields(BookTitle(i), <<f[i].author>>, "",
                                     f[i].series, f[i].tags)] :
                f \in [1..n -> [author : AuthorNames,
                                series : SeriesNames \cup {NoSeries},
                                tags : TagSets]] } : n \in 0..MaxBooks }

\* record sets of a library of untagged books of one author, the first
\* standalone and the others of one series
PlainRecordSets ==
    { [i \in 1..n |-> Fields(BookTitle(i), <<"Adams">>, "",
                             IF i = 1 THEN NoSeries ELSE "Dune", {})] :
        n \in 0..MaxBooks }

\* the rows of a library whose authors write alone and together, one of
\* them under two author_sort values, one with the name of another and a
\* middle initial, and whose titles begin with numbers
AuthorLibrary ==
    { Fields("2001: A Space Odyssey", <<"J. Doe">>, "Doe, J.", NoSeries, {}),
      Fields("The Left Hand of Darkness", <<"J. Doe">>, "Doe, Jonathan", NoSeries, {}),
      Fields("9 Lives", <<"J. Doe">>, "Doe, J.", "Dune", {}),
      Fields("10 Things", <<"A. Roe">>, "Roe, A.", NoSeries, {}),
      Fields("Zorro", <<"A. Roe">>, "Roe, A.", "Dune", {}),
      Fields("9 Lives", <<"J. Doe", "A. Roe">>, "Doe, J. & Roe, A.", NoSeries, {}),
      Fields("10 Things", <<"J. Doe", "A. Roe", "K. Poe">>,
             "Doe, J. & Roe, A. & Poe, K.", NoSeries, {}),
      Fields("99999999999 Bottles", <<"K. Poe">>, "Poe, K.", NoSeries, {}),
      Fields("100000000000 Bottles", <<"K. Poe">>, "Poe, K.", NoSeries, {}),
      Fields("Zorro", <<"J. M. Doe">>, "Doe, J. M.", NoSeries, {}) }

\* the rows of a library of tagged books: a book under two tags of one
\* genre, another book of the same title, a book of a series in the same
\* genre, a book under the excluded tag, a book under a tag written with
\* an entity, a book without tags
TaggedLibrary ==
    { Fields("Dune", <<"Adams">>, "", NoSeries, {"Sci Fi", "SciFi"}),
      Fields("Dune", <<"Brin">>, "", NoSeries, {"Sci Fi"}),
      Fields("Ubik", <<"Brin">>, "", "Dune", {"SciFi"}),
      Fields("Emma", <<"Adams">>, "", NoSeries, {"Drama"}),
      Fields("Emma", <<"Brin">>, "", NoSeries, {"Catalog", "Drama"}),
      Fields("Labs", <<"Brin">>, "", NoSeries, {"R&amp;D"}),
      Fields("Zorro", <<"Adams">>, "", NoSeries, {}) }

\* record sets drawn from TaggedLibrary, in every order
TaggedRecordSets == UNION { [1..n -> TaggedLibrary] : n \in 0..MaxBooks }

\* record sets drawn from AuthorLibrary, in every order
AuthorRecordSets == UNION { [1..n -> AuthorLibrary] : n \in 0..MaxAuthorBooks }

BooksOf(fields) == [i \in 1..Len(fields) |-> Record(i, fields[i])]

\* fetch_books_to_catalog: search_sort_db with the search text
\* "not (tag:=...)" of the excluded tags returns the rows that carry none
\* of them; every row keeps the id it has in the database
FetchBooksToCatalog(fields, excluded_tags) ==
    LET rows == BooksOf(fields)
    IN  SelectSeq2(rows, { rows[i] : i \in { k \in 1..Len(fields) :
                                         fields[k].tags \cap excluded_tags = {} } })

\* fetch_books_by_title: sorted by title_sort.upper()
FetchBooksByTitle(books) ==
    SortedBy(books, KeyRanks([i \in 1..Len(books) |-> upper(books[i].title_sort)]))

\* _kf_books_by_author_sorter_author: the key detect_author_sort_mismatches
\* sorts by, with the author_sort computed from the display name
kf_books_by_author_sorter_author(book) ==
    IF book.series = NoSeries
    THEN kf_author_to_author_sort(book.author) \o " " \o capitalize(book.title_sort)
    ELSE kf_author_to_author_sort(book.author) \o " ~" \o
            generate_sort_title(book.series) \o " " \o SeriesIndexText

\* a key whose marks are the other way round: '~' for a standalone book,
\* '!' for a book of a series
KeyWithMarksSwapped(book, longest_author_sort) ==
    IF book.series = NoSeries
    THEN ljust(capitalize(book.author_sort), longest_author_sort) \o "~" \o
            capitalize(book.title_sort)
    ELSE ljust(capitalize(book.author_sort), longest_author_sort) \o "!" \o
            generate_sort_title(book.series) \o SeriesIndexText

\* _kf_books_by_author_sorter_author_sort: the author_sort value padded to
\* longest_author_sort, then '!' and the title for a standalone book, '~'
\* and the series for a series book
kf_books_by_author_sorter_author_sort(book, longest_author_sort) ==
    IF book.series = NoSeries
    THEN ljust(capitalize(book.author_sort), longest_author_sort) \o "!" \o
            capitalize(book.title_sort)
    ELSE ljust(capitalize(book.author_sort), longest_author_sort) \o "~" \o
            generate_sort_title(book.series) \o SeriesIndexText

\* error_msg of detect_author_sort_mismatches, without its markup
MismatchText(author, sort, currentSort) ==
    "Inconsistent Author Sort values for Author '" \o author \o "': " \o
        sort \o " != " \o currentSort

RECURSIVE ScanAuthorsAcrossAuthors(_, _, _, _, _)
\* a scan that compares every row with the row before it, whatever their
\* display names
ScanAuthorsAcrossAuthors(authors, i, current_author, fmt, err) ==
    IF i > Len(authors) THEN [raised |-> FALSE, error |-> err]
    ELSE LET author == authors[i]
         IN  IF author # current_author /\ i > 1
             THEN IF fmt = "mobi"
                  THEN [raised |-> TRUE,
                        error |-> err \o
                           <<ErrorEntry("header", "Author Sort mismatch", 0),
                             ErrorEntry("fatal",
                                 MismatchText(author[1], author[2], current_author[2]), 0)>>]
                  ELSE ScanAuthorsAcrossAuthors(authors, i + 1, author, fmt,
                           (IF err = <<>>
                            THEN <<ErrorEntry("header", "Author Sort mismatch", 0)>>
                            ELSE err) \o
                           <<ErrorEntry("warning", "Warning: " \o
                                 MismatchText(author[1], author[2], current_author[2]), 0)>>)
             ELSE ScanAuthorsAcrossAuthors(authors, i + 1, current_author, fmt, err)

RECURSIVE ScanAuthorsWarningOnly(_, _, _, _, _)
\* a scan that warns in every format and never raises
ScanAuthorsWarningOnly(authors, i, current_author, fmt, err) ==
    IF i > Len(authors) THEN [raised |-> FALSE, error |-> err]
    ELSE LET author == authors[i]
         IN  IF author # current_author /\ i > 1
             THEN IF author[1] = current_author[1]
                  THEN ScanAuthorsWarningOnly(authors, i + 1, current_author, fmt,
                           (IF err = <<>>
                            THEN <<ErrorEntry("header", "Author Sort mismatch", 0)>>
                            ELSE err) \o
                           <<ErrorEntry("warning", "Warning: " \o
                                 MismatchText(author[1], author[2], current_author[2]), 0)>>)
                  ELSE ScanAuthorsWarningOnly(authors, i + 1, author, fmt, err)
             ELSE ScanAuthorsWarningOnly(authors, i + 1, current_author, fmt, err)

RECURSIVE ScanAuthors(_, _, _, _, _)
\* the loop of detect_author_sort_mismatches from the i-th row on; a row is
\* <<author, author_sort>>, err is self.error
ScanAuthors(authors, i, current_author, fmt, err) ==
    IF i > Len(authors) THEN [raised |-> FALSE, error |-> err]
    ELSE LET author == authors[i]
         IN  IF author # current_author /\ i > 1
             THEN IF author[1] = current_author[1]
                  THEN IF fmt = "mobi"
                       THEN [raised |-> TRUE,
                             error |-> err \o
                                <<ErrorEntry("header", "Author Sort mismatch", 0),
                                  ErrorEntry("fatal",
                                      MismatchText(author[1], author[2], current_author[2]), 0)>>]
                       ELSE ScanAuthors(authors, i + 1, current_author, fmt,
                                (IF err = <<>>
                                 THEN <<ErrorEntry("header", "Author Sort mismatch", 0)>>
                                 ELSE err) \o
                                <<ErrorEntry("warning", "Warning: " \o
                                      MismatchText(author[1], author[2], current_author[2]), 0)>>)
                  ELSE ScanAuthors(authors, i + 1, author, fmt, err)
             ELSE ScanAuthors(authors, i + 1, current_author, fmt, err)

\* the rows detect_author_sort_mismatches scans: sorted by the key with the
\* computed author_sort (sorted() of the plain strings)
RowsToTest(books_to_test) ==
    SortedBy(books_to_test,
             KeyRanks([i \in 1..Len(books_to_test) |->
                          kf_books_by_author_sorter_author(books_to_test[i])]))

AuthorPairs(books) == [i \in 1..Len(books) |-> <<books[i].author, books[i].author_sort>>]

\* detect_author_sort_mismatches: whether it raised
\* AuthorSortMismatchException, and self.error as it leaves it
detect_author_sort_mismatches(books_to_test, fmt, err) ==
    LET authors == AuthorPairs(RowsToTest(books_to_test))
    IN  ScanAuthors(authors, 1, authors[1], fmt, err)

\* cloned_authors after x rounds of pop(0) and append
RotateBy(authors, x) ==
    [k \in 1..Len(authors) |-> authors[((k + x - 1) % Len(authors)) + 1]]

\* the clones relist_multiple_authors makes of one book, in the order made
ClonesOf(book) ==
    [x \in 1..(Len(book.authors) - 1) |->
        LET cloned_authors == RotateBy(book.authors, x)
        IN  [book EXCEPT
                !.author = join(" & ", cloned_authors),
                !.authors = cloned_authors,
                !.author_sort =
                    join(" & ", [k \in 1..Len(cloned_authors) |->
                                    author_to_author_sort(cloned_authors[k])])]]

RECURSIVE AllClones(_)
AllClones(multiple_author_books) ==
    IF multiple_author_books = <<>> THEN <<>>
    ELSE ClonesOf(Head(multiple_author_books)) \o AllClones(Tail(multiple_author_books))

\* a relisting that clones a book once for every author, the first one
\* included
RelistCloningEveryAuthor(books) ==
    LET multiple == SelectSeq2(books, { b \in Range(books) : Len(b.authors) > 1 })
    IN  books \o AllClones(multiple) \o multiple

\* a relisting whose clones keep the author list of the book
RelistWithoutRotation(books) ==
    LET clones == AllClones(SelectSeq2(books, { b \in Range(books) : Len(b.authors) > 1 }))
    IN  books \o [i \in 1..Len(clones) |->
                    [clones[i] EXCEPT
                        !.authors = books[CHOOSE k \in 1..Len(books) :
                                              books[k].id = clones[i].id].authors]]

\* relist_multiple_authors: the list with the clones appended
relist_multiple_authors(books) ==
    books \o AllClones(SelectSeq2(books, { b \in Range(books) : Len(b.authors) > 1 }))

\* len(max(asl, key=len))
LongestAuthorSort(books) ==
    CHOOSE n \in { Len(b.author_sort) : b \in Range(books) } :
        \A b \in Range(books) : Len(b.author_sort) <= n

\* sorted(books, key=sort_key(_kf_books_by_author_sorter_author_sort(x, las)))
SortedByAuthorSort(books, las) ==
    SortedBy(books, KeyRanks([i \in 1..Len(books) |->
                                 kf_books_by_author_sorter_author_sort(books[i], las)]))

RECURSIVE TitleFrom(_, _)
\* icu_title: the first letter of every word in upper case, the other
\* letters in lower case; inWord says that the character before was a letter
TitleFrom(text, inWord) ==
    IF text = "" THEN ""
    ELSE (IF Head(text) \in Letters
          THEN IF inWord THEN ToLower[Head(text)] ELSE ToUpper[Head(text)]
          ELSE Head(text)) \o TitleFrom(Tail(text), Head(text) \in Letters)

icu_title(text) == TitleFrom(text, FALSE)

\* one entry of unique_authors
AuthorGroup(author, sort, count) == [author |-> author, sort |-> sort, count |-> count]

RECURSIVE UniqueAuthorsLoop(_, _, _, _, _, _)
\* the loop of fetch_books_by_author over authors from the i-th row on, and
\* its else clause
UniqueAuthorsLoop(authors, i, current_author, books_by_current_author, multiple_authors, unique_authors) ==
    IF i > Len(authors)
    THEN IF (current_author = authors[Len(authors)] /\ Len(authors) > 1) \/ ~multiple_authors
         THEN Append(unique_authors,
                     AuthorGroup(current_author[1], icu_title(current_author[2]),
                                 books_by_current_author))
         ELSE unique_authors
    ELSE IF authors[i] # current_author
         THEN UniqueAuthorsLoop(authors, i + 1, authors[i], 1, TRUE,
                  Append(unique_authors,
                         AuthorGroup(current_author[1], icu_title(current_author[2]),
                                     books_by_current_author)))
         ELSE IF i = 1 /\ Len(authors) = 1
              THEN UniqueAuthorsLoop(authors, i + 1, current_author,
                       books_by_current_author, multiple_authors,
                       Append(unique_authors,
                              AuthorGroup(current_author[1], icu_title(current_author[2]),
                                          books_by_current_author)))
              ELSE UniqueAuthorsLoop(authors, i + 1, current_author,
                       books_by_current_author + 1, multiple_authors, unique_authors)

\* unique_authors of fetch_books_by_author for the sorted by-author list
UniqueAuthors(books) ==
    LET authors == [i \in 1..Len(books) |->
                       <<books[i].author, capitalize(books[i].author_sort)>>]
    IN  UniqueAuthorsLoop(authors, 1, authors[1], 0, FALSE, <<>>)

\* fetch_books_by_author behind detect_author_sort_mismatches: the two
\* sorted lists and self.authors
FetchBooksByAuthor(books) ==
    LET relisted == relist_multiple_authors(books)
        las == LongestAuthorSort(relisted)
        by_author == SortedByAuthorSort(relisted, las)
    IN  [books_by_description |-> SortedByAuthorSort(books, las),
         books_by_author |-> by_author,
         authors |-> UniqueAuthors(by_author)]

\* _kf_books_by_series_sorter
SeriesSortKey(book) == StrRank(book.series)

HasSeries(book) == book.series # NoSeries

BooksBySeries(books) ==
    LET withSeries == SelectSeq2(books, { b \in Range(books) : HasSeries(b) })
    IN  SortedBy(withSeries, [i \in 1..Len(withSeries) |-> SeriesSortKey(withSeries[i])])

RECURSIVE GroupNames(_, _, _)
\* generate_by_authors_list / generate_by_series_list: one group per run of
\* consecutive rows with the same name; cur is the name of the open group
GroupNames(names, cur, acc) ==
    IF names = <<>> THEN acc
    ELSE IF Head(names) # cur
         THEN GroupNames(Tail(names), Head(names), Append(acc, Head(names)))
         ELSE GroupNames(Tail(names), cur, acc)

GenerateByAuthorsList(books) ==
    GroupNames([i \in 1..Len(books) |-> books[i].author], "", <<>>)

GenerateBySeriesList(books) ==
    GroupNames([i \in 1..Len(books) |-> books[i].series], NoSeries, <<>>)

(***************************************************************************)
(* Genres                                                                  *)
(***************************************************************************)
\* get_excluded_tags
ExcludedTags == {"Catalog"}

\* generate_unicode_name: unicodedata.name(c), its words joined by '_'
UnicodeName ==
    [c \in Chars |->
        CASE c = "!" -> "EXCLAMATION_MARK"
          [] c = "&" -> "AMPERSAND"
          [] c = "," -> "COMMA"
          [] c = "-" -> "HYPHEN-MINUS"
          [] c = "." -> "FULL_STOP"
          [] c = "/" -> "SOLIDUS"
          [] c = ":" -> "COLON"
          [] c = ";" -> "SEMICOLON"
          [] c = "~" -> "TILDE"
          [] OTHER -> c]

RECURSIVE RemoveBlanks(_)
\* re.sub('\s', '', text)
RemoveBlanks(text) ==
    IF text = "" THEN ""
    ELSE IF Head(text) = " " THEN RemoveBlanks(Tail(text))
         ELSE Head(text) \o RemoveBlanks(Tail(text))

\* a _normalize_tag that drops every non-word character
NormalizeTagDroppingSymbols(tag) ==
    LET massaged == RemoveBlanks(lower(tag))
        RECURSIVE Words(_)
        Words(text) ==
            IF text = "" THEN ""
            ELSE IF Head(text) \in Letters \cup Digits \cup {"_"}
                 THEN Head(text) \o Words(Tail(text))
                 ELSE Words(Tail(text))
    IN  Words(massaged)

\* _normalize_tag: ascii_text(tag).lower() without white space, every
\* non-word character replaced by its Unicode name (generate_unicode_name);
\* the tags of the model are shorter than max_len
NormalizeTag(tag) == MapChars(UnicodeName, RemoveBlanks(lower(tag)))

\* a filter that keeps one friendly tag for every normalized form
FilterKeepingOneTagPerGenre(all_genre_tags) ==
    LET friendly_tags == all_genre_tags \ ExcludedTags
        kept == { t \in friendly_tags :
                    \A u \in friendly_tags :
                        NormalizeTag(u) = NormalizeTag(t) => ~TextLess(u, t) }
        dict == [t \in kept |-> NormalizeTag(t)]
    IN  [genre_tags_dict |-> dict,
         warnings |->
            { [genre |-> normalized,
               tags |-> { key \in friendly_tags : NormalizeTag(key) = normalized }] :
                normalized \in { n \in { NormalizeTag(t) : t \in friendly_tags } :
                    Cardinality({ t \in friendly_tags : NormalizeTag(t) = n }) > 1 } }]

\* filter_genre_tags: the dict friendly tag -> normalized tag over the tags
\* that are not excluded, and the warnings it logs, one for every
\* normalized form that several tags resolve to
filter_genre_tags(all_genre_tags) ==
    LET friendly_tags == all_genre_tags \ ExcludedTags
        dict == [t \in friendly_tags |-> NormalizeTag(t)]
    IN  [genre_tags_dict |-> dict,
         warnings |->
            { [genre |-> normalized,
               tags |-> { key \in friendly_tags : dict[key] = normalized }] :
                normalized \in { n \in { dict[t] : t \in friendly_tags } :
                    Cardinality({ t \in friendly_tags : dict[t] = n }) > 1 } }]

VARIABLES
    all_tags,              \* db.all_tags(), the tags of the library
    genre_tags_dict,       \* self.genre_tags_dict
    log                    \* the warnings filter_genre_tags wrote to opts.log

genre_vars == <<all_tags, genre_tags_dict, log>>

\* sorted(self.genre_tags_dict, key=sort_key)
SortedFriendlyTags ==
    LET tags == CHOOSE s \in [1..Cardinality(DOMAIN genre_tags_dict) -> DOMAIN genre_tags_dict] :
                    \A i, j \in DOMAIN s : i # j => s[i] # s[j]
    IN  SortedBy(tags, KeyRanks(tags))

GenreIndex(genre_list, tag) ==
    { i \in 1..Len(genre_list) : genre_list[i].tag = tag }

\* the body of the inner loop of generate_html_by_genres for a book that
\* carries friendly_tag
AddToGenre(genre_list, normalized_tag, book) ==
    IF GenreIndex(genre_list, normalized_tag) # {}
    THEN [i \in 1..Len(genre_list) |->
            IF genre_list[i].tag = normalized_tag
               /\ \A b \in Range(genre_list[i].books) : b.title # book.title
            THEN [genre_list[i] EXCEPT !.books = Append(@, book)]
            ELSE genre_list[i]]
    ELSE Append(genre_list, [tag |-> normalized_tag, books |-> <<book>>])

RECURSIVE ScanBooks(_, _, _)
ScanBooks(genre_list, friendly_tag, books) ==
    IF books = <<>> THEN genre_list
    ELSE ScanBooks(IF friendly_tag \in Head(books).tags
                   THEN AddToGenre(genre_list, genre_tags_dict[friendly_tag], Head(books))
                   ELSE genre_list,
                   friendly_tag, Tail(books))

RECURSIVE ScanTags(_, _, _)
ScanTags(genre_list, friendly_tags, books) ==
    IF friendly_tags = <<>> THEN genre_list
    ELSE ScanTags(ScanBooks(genre_list, Head(friendly_tags), books),
                  Tail(friendly_tags), books)

(***************************************************************************)
(* Files, manifest and spine                                               *)
(***************************************************************************)
\* str.lower()
LowerCase(text) ==
    CASE text = "ByAuthor" -> "byauthor"
      [] text = "BySeries" -> "byseries"
      [] text = "Genre_" -> "genre_"
      [] text = "aAMPERSANDb" -> "aampersandb"
      [] OTHER -> text

\* file[start:end].lower(): the name between the first '/' and the first '.'
HtmlItemId(f) == LowerCase(f.prefix) \o LowerCase(f.name)

\* thumb[:end] + "-image"
ThumbItemId(f) == f.prefix \o f.name \o "-image"

Item(id, href, media) == [id |-> id, href |-> href, media |-> media]

\* generate_html_by_genres: self.genres
MasterGenreList(books_by_author_) ==
    LET genre_list == ScanTags(<<>>, SortedFriendlyTags, books_by_author_)
    IN  [i \in 1..Len(genre_list) |->
            [tag |-> genre_list[i].tag, file |-> GenreFile(genre_list[i].tag),
             books |-> genre_list[i].books]]

\* generate_opf: the manifest
OpfManifest(thumbs_, filelist, genres_, descriptions) ==
    <<Item("ncx", "Catalog.ncx", "application/x-dtbncx+xml"),
      Item("stylesheet", "content/magic_stylesheet.css", "text/css"),
      Item("mastheadimage-image", "images/mastheadImage.gif", "image/gif")>>
    \o [i \in 1..Len(thumbs_) |->
            Item(ThumbItemId(thumbs_[i]), Href(thumbs_[i]), "image/jpeg")]
    \o [i \in 1..Len(filelist) |->
            Item(HtmlItemId(filelist[i]), Href(filelist[i]), "application/xhtml+xml")]
    \o [i \in 1..Len(genres_) |->
            Item(HtmlItemId(genres_[i].file), Href(genres_[i].file), "application/xhtml+xml")]
    \o [i \in 1..Len(descriptions) |->
            Item("book" \o ToString(descriptions[i].id), Href(BookFile(descriptions[i].id)),
                 "application/xhtml+xml")]

\* generate_opf: the spine (html_filelist_2 stays empty in this builder)
OpfSpine(filelist, genres_, descriptions) ==
    [i \in 1..Len(filelist) |-> HtmlItemId(filelist[i])]
    \o [i \in 1..Len(genres_) |-> HtmlItemId(genres_[i].file)]
    \o [i \in 1..Len(descriptions) |-> "book" \o ToString(descriptions[i].id)]

(***************************************************************************)
(* Navigation tree (NCX)                                                   *)
(***************************************************************************)
\* a navPoint that was given no playOrder attribute
NoPlayOrder == 0

\* a navPoint: parent is the position of its parent in the tree's list of
\* nodes (0 for the top navPoint), file and frag are its content src
NavPoint(class, id, file, frag, playOrder, parent) ==
    [class |-> class, id |-> id, file |-> file, frag |-> frag,
     playOrder |-> playOrder, parent |-> parent]

\* The same section written by a builder that starts the counter anew in
\* every section.
SectionNumberedFromOne(tree, counter, id, file, frag, articles) ==
    LET at == Len(tree) + 1
    IN  [ncx |-> tree
                 \o <<NavPoint("section", id, file, frag, 1, 1)>>
                 \o [i \in 1..Len(articles) |->
                        NavPoint("article", articles[i][1], articles[i][2], articles[i][3],
                                 1 + i, at)],
         play_order |-> 2 + Len(articles)]

\* A section whose loop writes playOrder to the article it creates
\* (generate_ncx_descriptions, generate_ncx_by_genre): the section takes
\* the counter, then every article takes the next value.
\* articles[i] is <<id, file, frag>>.
SectionWithNumberedArticles(tree, counter, id, file, frag, articles) ==
    LET at == Len(tree) + 1
    IN  [ncx |-> tree
                 \o <<NavPoint("section", id, file, frag, counter, 1)>>
                 \o [i \in 1..Len(articles) |->
                        NavPoint("article", articles[i][1], articles[i][2], articles[i][3],
                                 counter + i, at)],
         play_order |-> counter + 1 + Len(articles)]

\* A section whose loop writes playOrder to navPointTag, the section itself
\* (generate_ncx_by_author, generate_ncx_by_series): every pass overwrites
\* the section's playOrder and the article gets none.
SectionWithOverwrittenOrder(tree, counter, id, file, frag, articles) ==
    LET at == Len(tree) + 1
    IN  [ncx |-> tree
                 \o <<NavPoint("section", id, file, frag, counter + Len(articles), 1)>>
                 \o [i \in 1..Len(articles) |->
                        NavPoint("article", articles[i][1], articles[i][2], articles[i][3],
                                 NoPlayOrder, at)],
         play_order |-> counter + 1 + Len(articles)]

\* generate_ncx_header: the periodical navPoint
NcxHeader(counter) ==
    [ncx |-> <<NavPoint("periodical", "title", Href(ByAuthorFile), "", counter, 0)>>,
     play_order |-> counter + 1]

\* generate_ncx_by_author
NcxByAuthor(tree, counter, books) ==
    LET authors == GenerateByAuthorsList(books)
    IN  SectionWithOverwrittenOrder(tree, counter, "authors-ID",
            Href(ByAuthorFile), "section_start",
            [i \in 1..Len(authors) |->
                <<authors[i] \o "authors-ID", Href(ByAuthorFile), authors[i]>>])

\* generate_ncx_descriptions
NcxDescriptions(tree, counter, books) ==
    SectionWithNumberedArticles(tree, counter, "bydescription-ID",
        Href(BookFile(books[1].id)), "",
        [i \in 1..Len(books) |->
            <<"book" \o ToString(books[i].id) \o "ID", Href(BookFile(books[i].id)),
              "book" \o ToString(books[i].id)>>])

\* generate_ncx_by_series
NcxBySeries(tree, counter, books) ==
    LET serieses == GenerateBySeriesList(books)
    IN  SectionWithOverwrittenOrder(tree, counter, "byseries-ID",
            Href(BySeriesFile), "section_start",
            [i \in 1..Len(serieses) |->
                <<serieses[i] \o "Series-ID", Href(BySeriesFile), serieses[i]>>])

\* a generate_ncx_by_genre that adds its section whether or not there is
\* a genre
NcxByGenreWithoutTest(tree, counter, genres_) ==
    SectionWithNumberedArticles(tree, counter, "genres-ID",
        IF Len(genres_) = 0 THEN "" ELSE Href(GenreFile(genres_[1].tag)), "section_start",
        [i \in 1..Len(genres_) |->
            <<"genre-" \o genres_[i].tag \o "-ID", Href(GenreFile(genres_[i].tag)), "">>])

\* generate_ncx_by_genre: nothing is added when there is no genre
NcxByGenre(tree, counter, genres_) ==
    IF Len(genres_) = 0
    THEN [ncx |-> tree, play_order |-> counter]
    ELSE SectionWithNumberedArticles(tree, counter, "genres-ID",
            Href(GenreFile(genres_[1].tag)), "section_start",
            [i \in 1..Len(genres_) |->
                <<"genre-" \o genres_[i].tag \o "-ID", Href(GenreFile(genres_[i].tag)), "">>])

(***************************************************************************)
(* State                                                                   *)
(***************************************************************************)
VARIABLES
    thumbs_archive,        \* thumbs.zip in calibre's cache directory
    runs,                  \* builders constructed so far
    opts,                  \* opts.thumb_width, opts.generate_series, opts.fmt
    books_to_catalog,
    pc,                    \* the stage build_sources is about to run
    title_index,           \* titles done by the loop of generate_thumbnails
    books_by_title,
    books_by_author,
    books_by_description,
    books_by_series,
    authors,               \* self.authors, the author groups
    thumbs,                \* the list thumbs of generate_thumbnails
    images,                \* files written to <catalog_path>/images
    cover_none,            \* titles whose 'cover' was set to None
    error,                 \* self.error
    confirmed,             \* what confirm_thumbs_archive found for this run
    last_title,            \* the title and cover of the latest loop pass
    calls,                 \* generate_thumbnail calls of the latest loop pass
    content_files,         \* files written to <catalog_path>/content
    html_filelist_1,
    genres,
    manifest,
    spine,
    ncx,                   \* navPoints in the order they were created
    play_order,
    exception,             \* the exception that left build_sources
    plumber_runs,          \* calls of Plumber.run by the run
    result,                \* what MAGIC_MOBI.run returned
    current_step,          \* self.current_step
    total_steps,           \* self.total_steps
    progress_int           \* the fraction last handed to the reporter, <<n, d>> for n/d

archive_vars == <<thumbs_archive, runs>>
thumb_vars == <<title_index, thumbs, images, cover_none, last_title, calls>>
view_vars == <<books_by_title, books_by_author, books_by_description, books_by_series,
               authors>>
html_vars == <<content_files, html_filelist_1, genres>>
opf_vars == <<manifest, spine>>
ncx_vars == <<ncx, play_order>>
run_vars == <<exception, plumber_runs, result>>
progress_vars == <<current_step, total_steps, progress_int>>

vars == <<thumbs_archive, runs, opts, books_to_catalog, pc, title_index, books_by_title,
          books_by_author, books_by_description, books_by_series, authors, thumbs,
          images, cover_none, error, confirmed, last_title, calls, content_files,
          html_filelist_1, genres, manifest, spine, ncx, play_order, exception,
          plumber_runs, result, all_tags, genre_tags_dict, log, current_step,
          total_steps, progress_int>>

\* a dict without keys
EmptyDict == [t \in {} |-> ""]

\* build_sources has not raised
NoException == "None"

\* the exceptions MAGIC_MOBI.run catches and logs
FatalExceptions == {"AuthorSortMismatchException", "EmptyCatalogException"}

NoTitle == [id |-> 0, cover |-> [kind |-> "none", crc |-> "-"]]

\* self.total_steps as __init__ sets it before compute_total_steps
InitialTotalSteps == 6

\* self.progress_int as __init__ sets it
NoProgress == <<0, 1>>

\* compute_total_steps: two more steps, and two more again with the Series
\* section
compute_total_steps(steps, generate_series) ==
    steps + 2 + (IF generate_series THEN 2 ELSE 0)

\* update_progress_micro_step, the fraction it reports in step number step:
\* (step - 1) / total_steps + micro_step_pct / total_steps
update_progress_micro_step(step, micro_step_pct) ==
    <<(step - 1) * micro_step_pct[2] + micro_step_pct[1], micro_step_pct[2] * total_steps>>

\* update_progress_full_step: the step count goes up and
\* (current_step - 1) / total_steps is reported, 0.01 in place of 0
update_progress_full_step ==
    /\ current_step' = current_step + 1
    /\ progress_int' = IF current_step = 0 THEN <<1, 100>> ELSE <<current_step, total_steps>>
    /\ total_steps' = total_steps

\* no builder exists yet, and calibre's cache directory holds no archive
Init ==
    /\ thumbs_archive = NoArchive
    /\ runs = 0
    /\ opts = [thumb_width |-> "1.0", generate_series |-> TRUE, fmt |-> "mobi",
               exclusion_tags |-> {"Catalog"}, output_profile |-> "kindle"]
    /\ books_to_catalog = <<>>
    /\ pc = "idle"
    /\ title_index = 0
    /\ books_by_title = <<>>
    /\ books_by_author = <<>>
    /\ books_by_description = <<>>
    /\ books_by_series = <<>>
    /\ authors = <<>>
    /\ thumbs = <<>>
    /\ images = {}
    /\ cover_none = {}
    /\ error = <<>>
    /\ confirmed = [cached |-> NoCachedWidth, unreadable |-> FALSE, cleared |-> FALSE,
                    before |-> <<>>]
    /\ last_title = NoTitle
    /\ calls = <<>>
    /\ content_files = {}
    /\ html_filelist_1 = <<>>
    /\ genres = <<>>
    /\ manifest = <<>>
    /\ spine = <<>>
    /\ ncx = <<>>
    /\ play_order = 1
    /\ exception = NoException
    /\ plumber_runs = 0
    /\ result = <<>>
    /\ all_tags = {}
    /\ genre_tags_dict = EmptyDict
    /\ log = {}
    /\ current_step = 0
    /\ total_steps = InitialTotalSteps
    /\ progress_int = NoProgress

\* no run is under way
Ended == pc \in {"idle", "returned", "reraised"}

\* MAGIC_MOBI.run constructs a CatalogBuilder: __init__ sets the fields,
\* fetches the records and calls confirm_thumbs_archive.  MAGIC_MOBI.run
\* sets opts.fmt to 'mobi'; another caller of CatalogBuilder may hand it
\* another format.  The tags of the rows are tags of the library
\* (db.all_tags()); get_excluded_tags does not read opts.exclusion_tags.
Construct(recordSets, widthTexts, seriesFlags, fmts, tagLibraries, exclusionLists, profiles, maxRuns) ==
    /\ Ended
    /\ runs < maxRuns
    /\ \E all_genre_tags \in tagLibraries, fields \in recordSets, widthText \in widthTexts,
          series \in seriesFlags, fmt \in fmts, exclusion_tags \in exclusionLists,
          output_profile \in profiles :
         LET found == ConfirmThumbsArchive(thumbs_archive, widthText)
             excluded_tags == ExcludedTags
         IN  /\ \A i \in 1..Len(fields) : fields[i].tags \subseteq all_genre_tags
             /\ all_tags' = all_genre_tags
             /\ genre_tags_dict' = filter_genre_tags(all_genre_tags).genre_tags_dict
             /\ log' = filter_genre_tags(all_genre_tags).warnings
             /\ thumbs_archive' = found.archive
             /\ confirmed' = [cached |-> found.cached, unreadable |-> found.unreadable,
                              cleared |-> found.cleared, before |-> thumbs_archive.members]
             /\ opts' = [thumb_width |-> widthText, generate_series |-> series,
                          fmt |-> fmt, exclusion_tags |-> exclusion_tags,
                          output_profile |-> output_profile]
             /\ books_to_catalog' = FetchBooksToCatalog(fields, excluded_tags)
             /\ total_steps' = compute_total_steps(InitialTotalSteps, series)
    /\ runs' = runs + 1
    /\ pc' = "fetch_books_by_title"
    /\ title_index' = 0
    /\ books_by_title' = <<>>
    /\ books_by_author' = <<>>
    /\ books_by_description' = <<>>
    /\ books_by_series' = <<>>
    /\ authors' = <<>>
    /\ thumbs' = <<>>
    /\ images' = {}
    /\ cover_none' = {}
    /\ error' = <<>>
    /\ last_title' = NoTitle
    /\ calls' = <<>>
    /\ content_files' = {}
    /\ html_filelist_1' = <<>>
    /\ genres' = <<>>
    /\ manifest' = <<>>
    /\ spine' = <<>>
    /\ ncx' = <<>>
    /\ play_order' = 1
    /\ exception' = NoException
    /\ plumber_runs' = 0
    /\ result' = <<>>
    /\ current_step' = 0
    /\ progress_int' = NoProgress

\* between two runs the archive is damaged or held by another program, so
\* that the next ZipFile(mode='r') raises
DamageArchive(maxRuns) ==
    /\ Ended
    /\ runs < maxRuns
    /\ thumbs_archive.exists
    /\ thumbs_archive.readable
    /\ thumbs_archive' = [thumbs_archive EXCEPT !.readable = FALSE]
    /\ UNCHANGED <<runs, opts, books_to_catalog, genre_vars, pc, confirmed, error>>
    /\ UNCHANGED <<thumb_vars, view_vars, html_vars, opf_vars, ncx_vars, run_vars>>
    /\ UNCHANGED progress_vars

\* a fetch_books_by_title that lets an empty record set through:
\* build_sources returns with nothing built
FetchBooksByTitleStagePassingEmpty ==
    /\ pc = "fetch_books_by_title"
    /\ IF Len(books_to_catalog) > 0
       THEN /\ books_by_title' = FetchBooksByTitle(books_to_catalog)
            /\ pc' = "fetch_books_by_author"
       ELSE /\ books_by_title' = books_by_title
            /\ pc' = "done"
    /\ UNCHANGED <<archive_vars, opts, books_to_catalog, genre_vars, confirmed, error>>
    /\ UNCHANGED <<books_by_author, books_by_description, books_by_series, authors>>
    /\ UNCHANGED <<thumb_vars, html_vars, opf_vars, ncx_vars, run_vars>>
    /\ update_progress_full_step

\* fetch_books_by_title: raises EmptyCatalogException on an empty record set
FetchBooksByTitleStage ==
    /\ pc = "fetch_books_by_title"
    /\ IF Len(books_to_catalog) > 0
       THEN /\ books_by_title' = FetchBooksByTitle(books_to_catalog)
            /\ pc' = "fetch_books_by_author"
            /\ error' = error
            /\ exception' = exception
       ELSE /\ books_by_title' = books_by_title
            /\ pc' = "raised"
            /\ error' = error \o <<ErrorEntry("header", "No books available to include in catalog", 0),
                                   ErrorEntry("fatal", "No books to catalog", 0)>>
            /\ exception' = "EmptyCatalogException"
    /\ UNCHANGED <<archive_vars, opts, books_to_catalog, genre_vars, confirmed>>
    /\ UNCHANGED <<books_by_author, books_by_description, books_by_series, authors>>
    /\ UNCHANGED <<thumb_vars, html_vars, opf_vars, ncx_vars, plumber_runs, result>>
    /\ update_progress_full_step

\* fetch_books_by_author: detect_author_sort_mismatches may raise
\* AuthorSortMismatchException before any list is set
FetchBooksByAuthorStage ==
    /\ pc = "fetch_books_by_author"
    /\ LET found == detect_author_sort_mismatches(books_to_catalog, opts.fmt, error)
           lists == FetchBooksByAuthor(books_to_catalog)
       IN  /\ error' = found.error
           /\ IF found.raised
              THEN /\ exception' = "AuthorSortMismatchException"
                   /\ pc' = "raised"
                   /\ UNCHANGED <<books_by_description, books_by_author, authors>>
              ELSE /\ exception' = exception
                   /\ pc' = "generate_thumbnails"
                   /\ books_by_description' = lists.books_by_description
                   /\ books_by_author' = lists.books_by_author
                   /\ authors' = lists.authors
    /\ UNCHANGED <<archive_vars, opts, books_to_catalog, genre_vars, confirmed>>
    /\ UNCHANGED <<books_by_title, books_by_series>>
    /\ UNCHANGED <<thumb_vars, html_vars, opf_vars, ncx_vars, plumber_runs, result>>
    /\ update_progress_full_step

\* generate_thumbnails, one pass of its loop over books_by_title; the
\* first pass comes after the full step 'Thumbnails', and every pass
\* starts with a micro step of i / len(books_by_title)
GenerateThumbnailsPass(coverStates, openOutcomes) ==
    /\ pc = "generate_thumbnails"
    /\ title_index < Len(books_by_title)
    /\ \E cover \in coverStates, o1, o2, o3, o4 \in openOutcomes :
         LET title == books_by_title[title_index + 1]
             st == [archive |-> thumbs_archive,
                    thumbs |-> IF title_index = 0 THEN <<DefaultThumbFile>> ELSE thumbs,
                    error |-> error, images |-> images, cover_none |-> cover_none]
             out == ThumbnailPass(st, title, cover, ThumbPixels(opts.output_profile, opts.thumb_width),
                                  o1, o2, o3, o4)
         IN  /\ thumbs_archive' = out.archive
             /\ thumbs' = out.thumbs
             /\ error' = out.error
             /\ images' = out.images
             /\ cover_none' = out.cover_none
             /\ calls' = out.calls
             /\ last_title' = [id |-> title.id, cover |-> cover]
    /\ title_index' = title_index + 1
    /\ UNCHANGED <<runs, opts, books_to_catalog, genre_vars, pc, confirmed>>
    /\ UNCHANGED <<view_vars, html_vars, opf_vars, ncx_vars, run_vars>>
    /\ LET step == IF title_index = 0 THEN current_step + 1 ELSE current_step
       IN  /\ current_step' = step
           /\ progress_int' = update_progress_micro_step(step, <<title_index, Len(books_by_title)>>)
    /\ total_steps' = total_steps

\* generate_thumbnails after its loop: thumb_width is written to the
\* archive (ZipFile(mode='a'), not guarded: a failure to open it ends the
\* build with the exception) and self.thumbs is set
GenerateThumbnailsEnd(openOutcomes) ==
    /\ pc = "generate_thumbnails"
    /\ title_index = Len(books_by_title)
    /\ \E opened \in openOutcomes :
         IF opened
         THEN /\ thumbs_archive' = [thumbs_archive EXCEPT !.members =
                                       Append(@, WidthMember(opts.thumb_width))]
              /\ pc' = "generate_html_descriptions"
              /\ exception' = exception
         ELSE /\ thumbs_archive' = thumbs_archive
              /\ pc' = "raised"
              /\ exception' = "IOError"
    /\ last_title' = NoTitle
    /\ calls' = <<>>
    /\ UNCHANGED <<runs, opts, books_to_catalog, genre_vars, confirmed, error>>
    /\ UNCHANGED <<title_index, thumbs, images, cover_none>>
    /\ UNCHANGED <<view_vars, html_vars, opf_vars, ncx_vars, plumber_runs, result>>
    /\ UNCHANGED progress_vars

\* generate_html_description_header looks every genre of the book up in
\* genre_tags_dict (unless the dict is empty): a tag that is no key raises
\* KeyError
HeaderRaises(book) ==
    /\ genre_tags_dict # EmptyDict
    /\ \E tag \in book.tags : tag \notin DOMAIN genre_tags_dict

\* generate_html_descriptions: one page per title, up to the first title
\* whose header raises; the full step 'Descriptions HTML', then one micro
\* step of (title_num * 100 / len(books_by_title)) / 100 per title visited
GenerateHtmlDescriptions ==
    /\ pc = "generate_html_descriptions"
    /\ LET failing == { i \in 1..Len(books_by_title) : HeaderRaises(books_by_title[i]) }
           written == { i \in 1..Len(books_by_title) : \A k \in failing : i < k }
       IN  /\ content_files' = content_files \cup
                                   { BookFile(books_by_title[i].id) : i \in written }
           /\ IF failing = {}
              THEN /\ pc' = "generate_html_by_author"
                   /\ exception' = exception
              ELSE /\ pc' = "raised"
                   /\ exception' = "KeyError"
    /\ UNCHANGED <<archive_vars, opts, books_to_catalog, genre_vars, confirmed, error>>
    /\ UNCHANGED <<html_filelist_1, genres>>
    /\ UNCHANGED <<thumb_vars, view_vars, opf_vars, ncx_vars, plumber_runs, result>>
    /\ LET failing == { i \in 1..Len(books_by_title) : HeaderRaises(books_by_title[i]) }
           last == IF failing = {} THEN Len(books_by_title)
                   ELSE CHOOSE k \in failing : \A j \in failing : k <= j
           title_num == last - 1
       IN  /\ current_step' = current_step + 1
           /\ progress_int' = update_progress_micro_step(current_step + 1,
                   <<(title_num * 100) \div Len(books_by_title), 100>>)
    /\ total_steps' = total_steps

\* generate_html_by_author
GenerateHtmlByAuthor ==
    /\ pc = "generate_html_by_author"
    /\ content_files' = content_files \cup {ByAuthorFile}
    /\ html_filelist_1' = Append(html_filelist_1, ByAuthorFile)
    /\ pc' = "generate_html_by_series"
    /\ UNCHANGED <<archive_vars, opts, books_to_catalog, genre_vars, confirmed, error, genres>>
    /\ UNCHANGED <<thumb_vars, view_vars, opf_vars, ncx_vars, run_vars>>
    /\ update_progress_full_step

\* generate_html_by_series: build_sources calls it whatever
\* opts.generate_series is; without a series book it switches the option
\* off and returns
GenerateHtmlBySeries ==
    /\ pc = "generate_html_by_series"
    /\ books_by_series' = BooksBySeries(books_to_catalog)
    /\ IF BooksBySeries(books_to_catalog) = <<>>
       THEN /\ opts' = [opts EXCEPT !.generate_series = FALSE]
            /\ UNCHANGED <<content_files, html_filelist_1>>
       ELSE /\ opts' = opts
            /\ content_files' = content_files \cup {BySeriesFile}
            /\ html_filelist_1' = Append(html_filelist_1, BySeriesFile)
    /\ pc' = "generate_html_by_genres"
    /\ UNCHANGED <<archive_vars, books_to_catalog, genre_vars, confirmed, error, genres>>
    /\ UNCHANGED <<books_by_title, books_by_author, books_by_description, authors>>
    /\ UNCHANGED <<thumb_vars, opf_vars, ncx_vars, run_vars>>
    /\ update_progress_full_step

\* generate_html_by_genres
GenerateHtmlByGenres ==
    /\ pc = "generate_html_by_genres"
    /\ genres' = MasterGenreList(books_by_author)
    /\ content_files' = content_files \cup
            { MasterGenreList(books_by_author)[i].file :
                i \in 1..Len(MasterGenreList(books_by_author)) }
    /\ pc' = "generate_opf"
    /\ UNCHANGED <<archive_vars, opts, books_to_catalog, genre_vars, confirmed, error, html_filelist_1>>
    /\ UNCHANGED <<thumb_vars, view_vars, opf_vars, ncx_vars, run_vars>>
    /\ update_progress_full_step

\* generate_opf
GenerateOpf ==
    /\ pc = "generate_opf"
    /\ manifest' = OpfManifest(thumbs, html_filelist_1, genres, books_by_description)
    /\ spine' = OpfSpine(html_filelist_1, genres, books_by_description)
    /\ pc' = "generate_ncx_header"
    /\ UNCHANGED <<archive_vars, opts, books_to_catalog, genre_vars, confirmed, error>>
    /\ UNCHANGED <<thumb_vars, view_vars, html_vars, ncx_vars, run_vars>>
    /\ update_progress_full_step

\* generate_ncx_header
GenerateNcxHeader ==
    /\ pc = "generate_ncx_header"
    /\ ncx' = NcxHeader(play_order).ncx
    /\ play_order' = NcxHeader(play_order).play_order
    /\ pc' = "generate_ncx_by_author"
    /\ UNCHANGED <<archive_vars, opts, books_to_catalog, genre_vars, confirmed, error>>
    /\ UNCHANGED <<thumb_vars, view_vars, html_vars, opf_vars, run_vars>>
    /\ update_progress_full_step

\* generate_ncx_by_author
GenerateNcxByAuthor ==
    /\ pc = "generate_ncx_by_author"
    /\ ncx' = NcxByAuthor(ncx, play_order, books_by_author).ncx
    /\ play_order' = NcxByAuthor(ncx, play_order, books_by_author).play_order
    /\ pc' = "generate_ncx_descriptions"
    /\ UNCHANGED <<archive_vars, opts, books_to_catalog, genre_vars, confirmed, error>>
    /\ UNCHANGED <<thumb_vars, view_vars, html_vars, opf_vars, run_vars>>
    /\ update_progress_full_step

\* generate_ncx_descriptions, then the test of opts.generate_series in
\* build_sources
GenerateNcxDescriptions ==
    /\ pc = "generate_ncx_descriptions"
    /\ ncx' = NcxDescriptions(ncx, play_order, books_by_description).ncx
    /\ play_order' = NcxDescriptions(ncx, play_order, books_by_description).play_order
    /\ pc' = IF opts.generate_series THEN "generate_ncx_by_series" ELSE "generate_ncx_by_genre"
    /\ UNCHANGED <<archive_vars, opts, books_to_catalog, genre_vars, confirmed, error>>
    /\ UNCHANGED <<thumb_vars, view_vars, html_vars, opf_vars, run_vars>>
    /\ update_progress_full_step

\* generate_ncx_by_series
GenerateNcxBySeries ==
    /\ pc = "generate_ncx_by_series"
    /\ ncx' = NcxBySeries(ncx, play_order, books_by_series).ncx
    /\ play_order' = NcxBySeries(ncx, play_order, books_by_series).play_order
    /\ pc' = "generate_ncx_by_genre"
    /\ UNCHANGED <<archive_vars, opts, books_to_catalog, genre_vars, confirmed, error>>
    /\ UNCHANGED <<thumb_vars, view_vars, html_vars, opf_vars, run_vars>>
    /\ update_progress_full_step

\* generate_ncx_by_genre
GenerateNcxByGenre ==
    /\ pc = "generate_ncx_by_genre"
    /\ ncx' = NcxByGenre(ncx, play_order, genres).ncx
    /\ play_order' = NcxByGenre(ncx, play_order, genres).play_order
    /\ pc' = "write_ncx"
    /\ UNCHANGED <<archive_vars, opts, books_to_catalog, genre_vars, confirmed, error>>
    /\ UNCHANGED <<thumb_vars, view_vars, html_vars, opf_vars, run_vars>>
    /\ update_progress_full_step

\* write_ncx: build_sources returns
WriteNcx ==
    /\ pc = "write_ncx"
    /\ pc' = "done"
    /\ UNCHANGED <<archive_vars, opts, books_to_catalog, genre_vars, confirmed, error>>
    /\ UNCHANGED <<thumb_vars, view_vars, html_vars, opf_vars, ncx_vars, run_vars>>
    /\ update_progress_full_step

\* a run whose except clause for the two catalog exceptions goes on to
\* the conversion
RunExceptThenPlumber ==
    /\ pc = "raised"
    /\ IF exception \in FatalExceptions
       THEN /\ pc' = "returned"
            /\ result' = error
            /\ plumber_runs' = plumber_runs + 1
       ELSE /\ pc' = "reraised"
            /\ result' = result
            /\ plumber_runs' = plumber_runs
    /\ UNCHANGED <<archive_vars, opts, books_to_catalog, genre_vars, confirmed, error>>
    /\ UNCHANGED <<thumb_vars, view_vars, html_vars, opf_vars, ncx_vars>>
    /\ UNCHANGED exception
    /\ UNCHANGED progress_vars

\* MAGIC_MOBI.run, its except clauses: an AuthorSortMismatchException or
\* an EmptyCatalogException is logged and run returns catalog.error; any
\* other exception is logged and raised again
RunExcept ==
    /\ pc = "raised"
    /\ IF exception \in FatalExceptions
       THEN /\ pc' = "returned"
            /\ result' = error
       ELSE /\ pc' = "reraised"
            /\ result' = result
    /\ UNCHANGED <<archive_vars, opts, books_to_catalog, genre_vars, confirmed, error>>
    /\ UNCHANGED <<thumb_vars, view_vars, html_vars, opf_vars, ncx_vars>>
    /\ UNCHANGED <<exception, plumber_runs>>
    /\ UNCHANGED progress_vars

\* MAGIC_MOBI.run, its else clause: build_sources returned, Plumber.run
\* converts the sources and run returns catalog.error
RunElse ==
    /\ pc = "done"
    /\ plumber_runs' = plumber_runs + 1
    /\ pc' = "returned"
    /\ result' = error
    /\ UNCHANGED <<archive_vars, opts, books_to_catalog, genre_vars, confirmed, error>>
    /\ UNCHANGED <<thumb_vars, view_vars, html_vars, opf_vars, ncx_vars>>
    /\ UNCHANGED exception
    /\ UNCHANGED progress_vars

\* the stages of build_sources after generate_thumbnails
LaterStages ==
    \/ GenerateHtmlDescriptions
    \/ GenerateHtmlByAuthor
    \/ GenerateHtmlBySeries
    \/ GenerateHtmlByGenres
    \/ GenerateOpf
    \/ GenerateNcxHeader
    \/ GenerateNcxByAuthor
    \/ GenerateNcxDescriptions
    \/ GenerateNcxBySeries
    \/ GenerateNcxByGenre
    \/ WriteNcx

\* the end of MAGIC_MOBI.run
RunEnd ==
    \/ RunExcept
    \/ RunElse

\* one build of a library with authors, series and tags whose covers are
\* sound, on a machine whose archive nothing else touches
Next ==
    \/ Construct(RichRecordSets, {"1.00"}, BOOLEAN, {"mobi"}, {AllTags}, {{"Catalog"}}, {"kindle"}, 1)
    \/ FetchBooksByTitleStage
    \/ FetchBooksByAuthorStage
    \/ GenerateThumbnailsPass(SoundCovers, {TRUE})
    \/ GenerateThumbnailsEnd({TRUE})
    \/ LaterStages
    \/ RunEnd

Spec == Init /\ [][Next]_vars

\* up to MaxRuns builds of a plain library over the same archive, with
\* every state of the covers and of the archive
NextThumbs ==
    \/ Construct(PlainRecordSets, ThumbWidthTexts, {TRUE}, {"mobi"}, {AllTags}, {{"Catalog"}}, {"kindle"}, MaxRuns)
    \/ DamageArchive(MaxRuns)
    \/ FetchBooksByTitleStage
    \/ FetchBooksByAuthorStage
    \/ GenerateThumbnailsPass(CoverStates, BOOLEAN)
    \/ GenerateThumbnailsEnd(BOOLEAN)
    \/ LaterStages
    \/ RunEnd

SpecThumbs == Init /\ [][NextThumbs]_vars

\* one build of a library of single and joint authors, in the format of
\* MAGIC_MOBI.run or in another one
NextAuthors ==
    \/ Construct(AuthorRecordSets, {"1.00"}, {TRUE}, {"mobi", "epub"}, {AllTags}, {{"Catalog"}}, {"kindle"}, 1)
    \/ FetchBooksByTitleStage
    \/ FetchBooksByAuthorStage
    \/ GenerateThumbnailsPass(NoCovers, {TRUE})
    \/ GenerateThumbnailsEnd({TRUE})
    \/ LaterStages
    \/ RunEnd

SpecAuthors == Init /\ [][NextAuthors]_vars

\* one build of a record set of tagged books in a library of any tags
NextGenres ==
    \/ Construct(TaggedRecordSets, {"1.00"}, {TRUE}, {"mobi"}, TagLibraries, ExclusionTagLists, {"kindle"}, 1)
    \/ FetchBooksByTitleStage
    \/ FetchBooksByAuthorStage
    \/ GenerateThumbnailsPass(NoCovers, {TRUE})
    \/ GenerateThumbnailsEnd({TRUE})
    \/ LaterStages
    \/ RunEnd

SpecGenres == Init /\ [][NextGenres]_vars

\* up to MaxAbortRuns builds of a plain library at one width over the same
\* archive; the archive may fail to open when thumb_width is to be written
NextAborts ==
    \/ Construct(PlainRecordSets, {"1.00"}, {TRUE}, {"mobi"}, {AllTags}, {{"Catalog"}}, {"kindle"}, MaxAbortRuns)
    \/ FetchBooksByTitleStage
    \/ FetchBooksByAuthorStage
    \/ GenerateThumbnailsPass(SoundCovers, {TRUE})
    \/ GenerateThumbnailsEnd(BOOLEAN)
    \/ LaterStages
    \/ RunEnd

SpecAborts == Init /\ [][NextAborts]_vars

\* up to MaxRuns builds of a plain library over the same archive, for
\* output profiles of different dpi
NextProfiles ==
    \/ Construct(PlainRecordSets, {"1.00", "2.00"}, {TRUE}, {"mobi"}, {AllTags}, {{"Catalog"}}, OutputProfiles, MaxRuns)
    \/ FetchBooksByTitleStage
    \/ FetchBooksByAuthorStage
    \/ GenerateThumbnailsPass(SoundCovers, {TRUE})
    \/ GenerateThumbnailsEnd({TRUE})
    \/ LaterStages
    \/ RunEnd

SpecProfiles == Init /\ [][NextProfiles]_vars

(***************************************************************************)
(* Spine and navigation tree of a finished build                           *)
(***************************************************************************)
\* the section group a spine itemref belongs to
GroupOfItem(idref) ==
    CASE idref = HtmlItemId(ByAuthorFile) -> "Authors"
      [] idref = HtmlItemId(BySeriesFile) -> "Series"
      [] idref \in { HtmlItemId(GenreFile(NormalizeTag(t))) : t \in AllTags } -> "Genres"
      [] OTHER -> "Descriptions"

\* the section a section navPoint stands for
SectionOfNavPoint(id) ==
    CASE id = "authors-ID" -> "Authors"
      [] id = "bydescription-ID" -> "Descriptions"
      [] id = "byseries-ID" -> "Series"
      [] id = "genres-ID" -> "Genres"

\* the section groups of the spine, in spine order
SpineGroups == GroupNames([i \in 1..Len(spine) |-> GroupOfItem(spine[i])], "", <<>>)

\* the sections of the navigation tree, in the order they were appended
NavSections ==
    LET sections == SelectSeq2(ncx, { n \in Range(ncx) : n.class = "section" })
    IN  [i \in 1..Len(sections) |-> SectionOfNavPoint(sections[i].id)]

\* the content files the navPoints point to
NavTargets == { ncx[i].file : i \in 1..Len(ncx) }

\* C1: in a completed build the section groups of the spine come in the
\* order in which the sections were appended to the navigation tree.
C1_SpineFollowsNavOrder == pc = "done" => SpineGroups = NavSections

\* C2: no two navPoints carry the same playOrder, the playOrder values
\* increase in the order the navPoints were created, the first is 1 and
\* the counter is ahead of every value given out - whatever sections the
\* build has.
C2_PlayOrderIncreasing ==
    /\ \A i, j \in 1..Len(ncx) :
         (i < j /\ ncx[i].playOrder # NoPlayOrder /\ ncx[j].playOrder # NoPlayOrder)
            => ncx[i].playOrder < ncx[j].playOrder
    /\ \A i \in 1..Len(ncx) : ncx[i].playOrder < play_order
    /\ Len(ncx) > 0 => ncx[1].playOrder = 1
    /\ play_order = Len(ncx) + 1

\* a finished tree with all four sections, the Series and Genres sections
\* with an article each
C2_Witness ==
    /\ pc = "done"
    /\ NavSections = <<"Authors", "Descriptions", "Series", "Genres">>
    /\ Len(ncx) >= 9

\* C3: every article navPoint carries the value the counter had when the
\* article was created, and its section keeps the value it was created with
\* (the counter starts at 1 and every navPoint takes one value, so the k-th
\* navPoint created carries k).
C3_EntriesCarryTheirPosition ==
    \A k \in 1..Len(ncx) : ncx[k].playOrder = k

\* C4: in a completed build the spine has as many itemrefs as there are
\* distinct content files among the targets of the navPoints.
C4_SpineCountsNavTargets == pc = "done" => Len(spine) = Cardinality(NavTargets)

\* C5: every idref of the spine is the id of exactly one manifest item.
C5_IdrefsResolveOnce ==
    \A i \in 1..Len(spine) :
        Cardinality({ k \in 1..Len(manifest) : manifest[k].id = spine[i] }) = 1

(***************************************************************************)
(* The thumbnail archive over several builds                               *)
(***************************************************************************)
\* the width recorded in the archive is not the width asked for
WidthChanged == FloatOf(confirmed.cached) # FloatOf(opts.thumb_width)

\* the thumbs of a member list
ThumbsOf(members) == { m \in Range(members) : m.kind = "thumb" }

\* members is a prefix of longer
IsPrefix(members, longer) ==
    /\ Len(members) <= Len(longer)
    /\ \A i \in 1..Len(members) : members[i] = longer[i]

\* generate_thumbnail got past the cover and could not open the archive
OpenFailed(call) == ~call.opened /\ call.crc # "-"

\* C6: when the width recorded in the archive differs from opts.thumb_width
\* (or none is recorded) the builder starts with an archive without
\* thumbs and no lookup of the run is served from the archive; when the
\* widths are equal every member the archive had is still there.
C6_WidthChangeClearsStore ==
    pc # "idle" =>
        /\ WidthChanged =>
              /\ pc = "fetch_books_by_title" => thumbs_archive = FreshArchive
              /\ \A i \in 1..Len(calls) : ~calls[i].hit
        /\ ~WidthChanged => IsPrefix(confirmed.before, thumbs_archive.members)

\* a thumb stored by an earlier run is rendered anew after a width change
C6_Witness ==
    /\ WidthChanged
    /\ confirmed.cached # NoCachedWidth
    /\ confirmed.cleared
    /\ \E i \in 1..Len(calls) :
          /\ calls[i].rendered
          /\ HasMember(confirmed.before, "thumb", calls[i].uuid, calls[i].crc)

\* C7: a generate_thumbnail call for a uuid and cover crc the archive holds
\* (the archive opening) writes the stored thumb, renders nothing and
\* leaves the archive as it is; the archive never holds two thumbs under
\* one uuid + crc.
C7_LookupIdempotent ==
    /\ \A i \in 1..Len(calls) :
          (calls[i].opened /\ HasMember(calls[i].before, "thumb", calls[i].uuid, calls[i].crc))
             => /\ calls[i].hit
                /\ ~calls[i].rendered
                /\ ~calls[i].stored
                /\ calls[i].px = ReadMember(calls[i].before, "thumb",
                                            calls[i].uuid, calls[i].crc).px
                /\ calls[i].px = ThumbPixels(opts.output_profile, opts.thumb_width)
                /\ calls[i].archive.members = calls[i].before
    /\ \A m \in ThumbsOf(thumbs_archive.members) :
          Cardinality(Positions(thumbs_archive.members, "thumb", m.uuid, m.crc)) = 1

\* a second call for the cover of a title is served from the archive
C7_Witness ==
    /\ runs = 2
    /\ \E i \in 1..Len(calls) :
          /\ calls[i].hit
          /\ calls[i].crc = last_title.cover.crc
          /\ last_title.cover.kind = "ok"

\* generate_thumbnails has written thumb_width
PassCompleted == pc = "generate_html_descriptions"

\* C8: after a completed pass of generate_thumbnails the archive holds
\* exactly one 'thumb_width' member, and what is read from it is the
\* thumb_width of that pass.
C8_OneWidthRecord ==
    PassCompleted =>
        /\ Cardinality(Positions(thumbs_archive.members, "width", 0, "-")) = 1
        /\ ReadMember(thumbs_archive.members, "width", 0, "-").text = opts.thumb_width

\* self.error names the book in a warning
WarnedAbout(book) ==
    \E i \in 1..Len(error) : error[i].kind = "warning" /\ error[i].book = book

\* C9 as stated: a title whose cover is missing or does not render leaves
\* the build running and a warning naming it on self.error.
C9_WarningForEveryFailedCover ==
    (last_title.id # 0 /\ last_title.cover.kind \in {"missing", "bad"})
        => pc = "generate_thumbnails" /\ WarnedAbout(last_title.id)

\* C9 amended: a title whose cover is missing or does not render leaves
\* the build running with the title's cover cleared and no thumb of its
\* own listed; the warning naming it is on self.error exactly when the cover
\* file is there and does not render, under the header 'Invalid cover files'.
C9_WarningForUnrenderableCover ==
    last_title.id # 0 =>
        /\ pc = "generate_thumbnails"
        /\ WarnedAbout(last_title.id) <=> last_title.cover.kind = "bad"
        /\ WarnedAbout(last_title.id) => error[1] = ErrorEntry("header", "Invalid cover files", 0)
        /\ last_title.cover.kind \in {"missing", "bad"} <=> last_title.id \in cover_none
        /\ last_title.id \in cover_none <=> ThumbFile(last_title.id) \notin Range(thumbs)

\* the first title has no cover and goes without warning, the second has
\* a cover file that does not render and is named in a warning
C9_Witness ==
    /\ last_title.id = 2
    /\ last_title.cover.kind = "bad"
    /\ WarnedAbout(2)
    /\ 1 \in cover_none
    /\ ~WarnedAbout(1)

\* C10 as stated: an archive that cannot be opened for reading serves no
\* entry and a fresh archive takes its place, in confirm_thumbs_archive and
\* in generate_thumbnail.
C10_UnreadableStoreReplaced ==
    /\ confirmed.unreadable =>
          /\ pc = "fetch_books_by_title" => thumbs_archive = FreshArchive
          /\ \A i \in 1..Len(calls) : ~calls[i].hit
    /\ \A i \in 1..Len(calls) :
          OpenFailed(calls[i]) => ~calls[i].hit /\ calls[i].archive = FreshArchive

\* C10 amended: an archive that cannot be opened for reading when the
\* builder is constructed is replaced by a fresh one and serves no entry
\* in that run; an open that fails inside generate_thumbnail serves no
\* entry, the thumb is rendered (if the cover renders), nothing is stored
\* and the archive stays as it is.
C10_UnreadableStoreServesNothing ==
    /\ confirmed.unreadable =>
          /\ confirmed.cleared
          /\ pc = "fetch_books_by_title" => thumbs_archive = FreshArchive
          /\ \A i \in 1..Len(calls) : ~calls[i].hit
    /\ \A i \in 1..Len(calls) :
          OpenFailed(calls[i]) =>
              /\ ~calls[i].hit
              /\ ~calls[i].stored
              /\ calls[i].rendered <=> ~calls[i].raised
              /\ calls[i].archive.members = calls[i].before

\* the archive of the earlier build held the thumb and was unreadable at
\* construction: the thumb is rendered anew and stored in the fresh archive
C10_Witness ==
    /\ confirmed.unreadable
    /\ \E i \in 1..Len(calls) :
          /\ calls[i].rendered
          /\ calls[i].stored
          /\ HasMember(confirmed.before, "thumb", calls[i].uuid, calls[i].crc)

(***************************************************************************)
(* C11: once build_sources has raised EmptyCatalogException or             *)
(* AuthorSortMismatchException, no stage of the build runs any more (the  *)
(* views, the thumbnails, the pages, the manifest, the spine, the          *)
(* navigation tree and the archive stay as they are), Plumber.run is not   *)
(* called in that run, and run() returns self.error, which holds the fatal *)
(* entry.                                                                  *)
(***************************************************************************)
HasFatalEntry(err) == \E i \in 1..Len(err) : err[i].kind = "fatal"

C11_FatalEndsTheRun ==
    [][(exception \in FatalExceptions /\ runs' = runs) =>
          /\ pc' \in {"raised", "returned"}
          /\ UNCHANGED <<view_vars, thumb_vars, html_vars, opf_vars, ncx_vars>>
          /\ UNCHANGED <<thumbs_archive, error>>
          /\ plumber_runs' = 0
          /\ pc' = "returned" => (result' = error /\ HasFatalEntry(result'))]_vars

\* a run that the mismatch of two author_sort values ended has returned
C11_Witness ==
    /\ pc = "returned"
    /\ exception = "AuthorSortMismatchException"
    /\ plumber_runs = 0
    /\ HasFatalEntry(result)
    /\ books_by_author = <<>>

(***************************************************************************)
(* C12: a run over an empty record set is aborted with                     *)
(* EmptyCatalogException and has produced nothing: no sorted view, no      *)
(* thumbnail, no page, no manifest, no spine, no navigation tree.          *)
(***************************************************************************)
EmptyRun == runs > 0 /\ books_to_catalog = <<>> /\ pc \notin {"idle", "fetch_books_by_title"}

NothingBuilt ==
    /\ books_by_title = <<>> /\ books_by_author = <<>>
    /\ books_by_description = <<>> /\ books_by_series = <<>>
    /\ thumbs = <<>> /\ images = {}
    /\ content_files = {} /\ html_filelist_1 = <<>> /\ genres = <<>>
    /\ manifest = <<>> /\ spine = <<>> /\ ncx = <<>>

\* C12 as stated: ... and the thumbnail archive holds what it held before
\* the run
C12_EmptyRunLeavesStoreAlone ==
    EmptyRun =>
        /\ exception = "EmptyCatalogException"
        /\ pc \in {"raised", "returned"}
        /\ NothingBuilt
        /\ thumbs_archive.members = confirmed.before

\* C12 as the code has it: ... and the thumbnail archive is as
\* confirm_thumbs_archive, called by the constructor, left it: written anew
\* where there was none or where the width record differs, untouched
\* otherwise; no stage has written to it
C12_EmptyRunBuildsNothing ==
    EmptyRun =>
        /\ exception = "EmptyCatalogException"
        /\ pc \in {"raised", "returned"}
        /\ plumber_runs = 0
        /\ NothingBuilt
        /\ thumbs_archive.members =
              IF confirmed.cleared \/ confirmed.before = <<>>
              THEN <<MarkerMember>> ELSE confirmed.before

\* an empty run whose constructor cleared an archive that held thumbnails
C12_Witness ==
    /\ EmptyRun
    /\ exception = "EmptyCatalogException"
    /\ confirmed.cleared
    /\ \E i \in 1..Len(confirmed.before) : confirmed.before[i].kind = "thumb"
    /\ thumbs_archive.members = <<MarkerMember>>

(***************************************************************************)
(* C13: detect_author_sort_mismatches scans the rows sorted by author; a   *)
(* row mismatches when its author_sort differs from that of the first row  *)
(* of its run of rows with the same display name.  With opts.fmt = 'mobi'  *)
(* the first mismatching row raises AuthorSortMismatchException and the    *)
(* run is aborted with the header and the fatal message in self.error;     *)
(* with another format nothing is raised, the build goes on, and           *)
(* self.error holds exactly one warning for every mismatching row.         *)
(***************************************************************************)
\* the first row of the run of rows with the display name of row i
RunStart(rows, i) ==
    CHOOSE j \in 1..i :
        /\ \A k \in j..i : rows[k].author = rows[i].author
        /\ j = 1 \/ rows[j - 1].author # rows[i].author

MismatchRows(rows) ==
    { i \in 1..Len(rows) : rows[i].author_sort # rows[RunStart(rows, i)].author_sort }

Warnings(err) == { i \in 1..Len(err) : err[i].kind = "warning" }

\* fetch_books_by_author has run
AuthorsFetched ==
    /\ books_to_catalog # <<>>
    /\ pc \notin {"idle", "fetch_books_by_title", "fetch_books_by_author"}

IsMismatchReport(entry) ==
    /\ entry.kind \in {"fatal", "warning"}
    /\ entry.text \notin {"No books to catalog", "invalid cover file"}

C14_ReportsOnlyWithinOneAuthor ==
    \A i \in 1..Len(error) :
        IsMismatchReport(error[i]) =>
            \E a, b \in Range(books_to_catalog) :
                /\ a.author = b.author
                /\ a.author_sort # b.author_sort
                /\ error[i].text \in
                      { MismatchText(a.author, a.author_sort, b.author_sort),
                        "Warning: " \o MismatchText(a.author, a.author_sort, b.author_sort) }

\* a mismatch of one author was reported for a record set that holds a
\* row of another author as well
C14_Witness ==
    /\ \E i \in 1..Len(error) : IsMismatchReport(error[i])
    /\ opts.fmt = "mobi"
    /\ exception = "AuthorSortMismatchException"
    /\ \E a, b \in Range(books_to_catalog) : a.author # b.author

(***************************************************************************)
(* C15: the list relist_multiple_authors returns (books_by_author, which   *)
(* fetch_books_by_author then sorts) has one row for every record and one  *)
(* more for every author after the first of a record.                      *)
(***************************************************************************)
RECURSIVE ExtraAuthors(_)
\* sum of len(authors) - 1 over the records with more than one author
ExtraAuthors(books) ==
    IF books = <<>> THEN 0
    ELSE (IF Len(Head(books).authors) > 1 THEN Len(Head(books).authors) - 1 ELSE 0)
            + ExtraAuthors(Tail(books))

\* fetch_books_by_author has run and has not raised
AuthorsListed == AuthorsFetched /\ exception # "AuthorSortMismatchException"

C15_RelistedLength ==
    AuthorsListed =>
        Len(books_by_author) = Len(books_to_catalog) + ExtraAuthors(books_to_catalog)

\* a record set with a book of two authors and a book of three
C15_Witness ==
    /\ AuthorsListed
    /\ \E a, b \in Range(books_to_catalog) : Len(a.authors) = 2 /\ Len(b.authors) = 3
    /\ Len(books_by_author) = Len(books_to_catalog) + 3

(***************************************************************************)
(* C16: a record of n > 1 authors is in the relisted view n times: once    *)
(* as it was, and once for each rotation of its author list by 1..n-1      *)
(* places, the clone differing from the record in nothing but author,      *)
(* authors and author_sort; so every co-author heads the author list of    *)
(* exactly one of the n rows.  A record of one author is in the view       *)
(* once, as it was.                                                        *)
(***************************************************************************)
RowsOf(view, id) == { i \in 1..Len(view) : view[i].id = id }

\* the author list moved round by x places
Rotation(list, x) == SubSeq(list, x + 1, Len(list)) \o SubSeq(list, 1, x)

SameBookOtherAuthors(row, book) ==
    [row EXCEPT !.author = book.author, !.authors = book.authors,
                !.author_sort = book.author_sort] = book

C16_ClonesAreRotations ==
    AuthorsListed =>
        \A k \in 1..Len(books_to_catalog) :
            LET book == books_to_catalog[k]
                n == Len(book.authors)
                rows == RowsOf(books_by_author, book.id)
            IN  /\ Cardinality(rows) = n
                /\ Cardinality({ i \in rows : books_by_author[i] = book }) = 1
                /\ \A x \in 1..(n - 1) :
                      Cardinality({ i \in rows :
                          /\ books_by_author[i].authors = Rotation(book.authors, x)
                          /\ books_by_author[i].author =
                                join(" & ", Rotation(book.authors, x))
                          /\ SameBookOtherAuthors(books_by_author[i], book) }) = 1
                /\ \A a \in 1..n :
                      Cardinality({ i \in rows :
                          books_by_author[i].authors[1] = book.authors[a] }) = 1

\* a book of three authors and a book of one author were relisted
C16_Witness ==
    /\ AuthorsListed
    /\ \E a, b \in Range(books_to_catalog) :
          /\ Len(a.authors) = 3 /\ Len(b.authors) = 1
          /\ Cardinality(RowsOf(books_by_author, a.id)) = 3
          /\ Cardinality(RowsOf(books_by_author, b.id)) = 1

(***************************************************************************)
(* C17: self.authors, as fetch_books_by_author leaves it, has exactly one  *)
(* group for every maximal run of consecutive rows of books_by_author      *)
(* with one (author, author_sort) pair, in the order of the runs, and the  *)
(* count of the group is the length of its run; a view of a single row     *)
(* gives one group of count 1.                                             *)
(***************************************************************************)
AuthorPair(row) == <<row.author, row.author_sort>>

RunStarts(view) ==
    { i \in 1..Len(view) : i = 1 \/ AuthorPair(view[i]) # AuthorPair(view[i - 1]) }

\* the rows from i on that carry the pair of row i without a break
RunLength(view, i) ==
    Cardinality({ j \in i..Len(view) :
                    \A k \in i..j : AuthorPair(view[k]) = AuthorPair(view[i]) })

NthRunStart(view, g) ==
    CHOOSE i \in RunStarts(view) : Cardinality({ j \in RunStarts(view) : j <= i }) = g

GroupsFollowRuns(view, groups) ==
    /\ Len(groups) = Cardinality(RunStarts(view))
    /\ \A g \in 1..Len(groups) :
          g <= Cardinality(RunStarts(view)) =>
              /\ groups[g].author = view[NthRunStart(view, g)].author
              /\ groups[g].count = RunLength(view, NthRunStart(view, g))

C17_OneGroupPerRun == AuthorsListed => GroupsFollowRuns(books_by_author, authors)

(***************************************************************************)
(* C18: of two rows with the same author_sort value, one without a series  *)
(* and one with a series, the key of the first (padded to the longest      *)
(* author_sort of the list, which is no shorter than theirs) is below the  *)
(* key of the second, and the first stands before the second in            *)
(* books_by_author.                                                        *)
(***************************************************************************)
C18_StandaloneBeforeSeries ==
    AuthorsListed =>
        LET las == LongestAuthorSort(books_by_author)
        IN  \A i, j \in 1..Len(books_by_author) :
                (/\ books_by_author[i].author_sort = books_by_author[j].author_sort
                 /\ books_by_author[i].series = NoSeries
                 /\ books_by_author[j].series # NoSeries) =>
                    /\ las >= Len(books_by_author[i].author_sort)
                    /\ TextLess(
                          kf_books_by_author_sorter_author_sort(books_by_author[i], las),
                          kf_books_by_author_sorter_author_sort(books_by_author[j], las))
                    /\ i < j

\* a standalone book and a series book of one author_sort value, listed
\* with a book whose author_sort is longer than theirs
C18_Witness ==
    /\ AuthorsListed
    /\ \E i, j, k \in 1..Len(books_by_author) :
          /\ books_by_author[i].author_sort = books_by_author[j].author_sort
          /\ books_by_author[i].series = NoSeries
          /\ books_by_author[j].series # NoSeries
          /\ Len(books_by_author[k].author_sort) > Len(books_by_author[i].author_sort)
          /\ i < j

(***************************************************************************)
(* C19: in books_by_title, sorted by the keys of generate_sort_title, a    *)
(* title that begins with a number stands before every title that begins   *)
(* with a greater number, and before every title that begins with a        *)
(* letter.                                                                 *)
(***************************************************************************)
NumericLed(title) == title # "" /\ Head(title) \in Digits
LetterLed(title) == title # "" /\ Head(title) \in Letters

\* the number a title begins with, as its digits without leading zeros
LeadingNumber(title) == StripZeros(SubSeq(title, 1, DigitPrefixLen(title)))

\* a < b for two numbers written in digits
NumLess(a, b) == Len(a) < Len(b) \/ (Len(a) = Len(b) /\ TextLess(a, b))

\* fetch_books_by_title has run and has not raised
TitlesFetched ==
    /\ books_to_catalog # <<>>
    /\ pc \notin {"idle", "fetch_books_by_title"}

C19_NumbersByValueBeforeLetters ==
    TitlesFetched =>
        \A i, j \in 1..Len(books_by_title) :
            LET a == books_by_title[i].title
                b == books_by_title[j].title
            IN  /\ (NumericLed(a) /\ NumericLed(b)
                      /\ NumLess(LeadingNumber(a), LeadingNumber(b))) => i < j
                /\ (NumericLed(a) /\ LetterLed(b)) => i < j

WarningsNaming(tag) == { w \in log : tag \in w.tags }

\* C21 as stated: in a library with the tags 'Sci-Fi' and 'Sci Fi' the
\* genre index maps both to 'scifi' and one collision warning is logged.
C21_HyphenAndBlankCollide ==
    {"Sci-Fi", "Sci Fi"} \subseteq all_tags =>
        /\ genre_tags_dict["Sci-Fi"] = "scifi"
        /\ genre_tags_dict["Sci Fi"] = "scifi"
        /\ Cardinality({ w \in log : w.genre = "scifi" }) = 1

\* C21: 'Sci Fi' normalizes to 'scifi' and 'Sci-Fi' to
\* 'sciHYPHEN-MINUSfi' (the hyphen is replaced by its Unicode name), so
\* the genre index keeps the two apart and logs no collision of the two;
\* 'Sci Fi' and 'SciFi' both map to 'scifi', and exactly one collision
\* warning is logged for 'scifi', naming both.
C21_BlankCollidesHyphenIsNamed ==
    /\ {"Sci-Fi", "Sci Fi"} \subseteq all_tags =>
            /\ genre_tags_dict["Sci Fi"] = "scifi"
            /\ genre_tags_dict["Sci-Fi"] = "sciHYPHEN-MINUSfi"
            /\ WarningsNaming("Sci-Fi") = {}
    /\ {"Sci Fi", "SciFi"} \subseteq all_tags =>
            /\ genre_tags_dict["Sci Fi"] = "scifi"
            /\ genre_tags_dict["SciFi"] = "scifi"
            /\ { w \in log : w.genre = "scifi" } =
                    { [genre |-> "scifi", tags |-> {"Sci Fi", "SciFi"}] }

\* a builder of a library with all three spellings
C21_Witness ==
    /\ runs = 1
    /\ {"Sci-Fi", "Sci Fi", "SciFi"} \subseteq all_tags
    /\ log # {}

(***************************************************************************)
(* Genre groups                                                            *)
(***************************************************************************)
\* the stages that follow generate_html_by_genres
AfterHtmlByGenres ==
    {"generate_opf", "generate_ncx_header", "generate_ncx_by_author",
     "generate_ncx_descriptions", "generate_ncx_by_series", "generate_ncx_by_genre",
     "write_ncx", "done"}

\* the canonical identifiers of the genre index
GenreIdentifiers == { genre_tags_dict[t] : t \in DOMAIN genre_tags_dict }

\* the cataloged books that carry a friendly tag mapped to an identifier
CarriersOf(identifier) ==
    { b \in Range(books_to_catalog) :
        \E t \in b.tags \cap DOMAIN genre_tags_dict : genre_tags_dict[t] = identifier }

\* the places of a book in the group of an identifier
PlacesInGroup(identifier, id) ==
    { <<g, k>> \in (1..Len(genres)) \X (1..MaxBooks * 2) :
        /\ genres[g].tag = identifier
        /\ k <= Len(genres[g].books)
        /\ genres[g].books[k].id = id }

\* C22: once generate_html_by_genres has run, the group of every canonical
\* identifier holds every cataloged book that carries a friendly tag mapped
\* to the identifier, each of them once - also a book under two tags of one
\* identifier, and also two books of one title.
C22_GroupsHoldEveryCarrierOnce ==
    pc \in AfterHtmlByGenres =>
        \A identifier \in GenreIdentifiers :
            \A b \in CarriersOf(identifier) :
                Cardinality(PlacesInGroup(identifier, b.id)) = 1

(***************************************************************************)
(* Excluded tags                                                           *)
(***************************************************************************)
\* C23: no cataloged book carries a tag of opts.exclusion_tags, and no tag
\* of opts.exclusion_tags is a key of the genre index.
C23_ExclusionTagsAreExcluded ==
    runs > 0 =>
        /\ \A b \in Range(books_to_catalog) : b.tags \cap opts.exclusion_tags = {}
        /\ DOMAIN genre_tags_dict \cap opts.exclusion_tags = {}

(***************************************************************************)
(* Sections without entries                                                *)
(***************************************************************************)
\* the article navPoints under the navPoint at position k
ArticlesUnder(k) ==
    { j \in 1..Len(ncx) : ncx[j].class = "article" /\ ncx[j].parent = k }

\* the section navPoints with an id
SectionNodes(id) ==
    { k \in 1..Len(ncx) : ncx[k].class = "section" /\ ncx[k].id = id }

NoSeriesBook == \A b \in Range(books_to_catalog) : b.series = NoSeries

\* C24: the navigation tree never holds a section without entries: without
\* a series book there is no Series section, without a genre group there
\* is no Genres section, and every section navPoint has an article.
C24_NoEmptySection ==
    /\ NoSeriesBook => SectionNodes("byseries-ID") = {}
    /\ genres = <<>> => SectionNodes("genres-ID") = {}
    /\ \A k \in 1..Len(ncx) : ncx[k].class = "section" => ArticlesUnder(k) # {}

\* a finished build of books without series and without tags: the tree
\* has the Authors and Descriptions sections only
C24_Witness ==
    /\ pc = "done"
    /\ NoSeriesBook
    /\ genres = <<>>
    /\ NavSections = <<"Authors", "Descriptions">>

(***************************************************************************)
(* Mismatches that the scan of adjacent rows meets                         *)
(***************************************************************************)
\* the author_sort values the record set has for a display name
SortValuesOf(author) ==
    { b.author_sort : b \in { r \in Range(books_to_catalog) : r.author = author } }

\* the mismatch reports on self.error that name a display name
ReportsFor(author) ==
    { i \in 1..Len(error) :
        /\ IsMismatchReport(error[i])
        /\ \E x, y \in SortValuesOf(author) :
              error[i].text \in { MismatchText(author, x, y),
                                  "Warning: " \o MismatchText(author, x, y) } }

\* C25: once detect_author_sort_mismatches has run, every display name
\* that the record set has under two author_sort values is named by at
\* least one mismatch report.
C25_EveryMismatchIsReported ==
    AuthorsFetched =>
        \A a \in Range(books_to_catalog) :
            Cardinality(SortValuesOf(a.author)) > 1 => ReportsFor(a.author) # {}

(***************************************************************************)
(* Builds aborted in the thumbnail pass                                    *)
(***************************************************************************)
\* the run left generate_thumbnails with an exception, before thumb_width
\* was written (only generate_thumbnails ends a build with IOError)
AbortedInThumbnails == pc = "reraised" /\ exception = "IOError"

\* C26: the run that follows a build aborted in the thumbnail pass
\* invalidates the store, so that no entry the aborted pass wrote is left
\* to be served.
C26_AbortedPassIsInvalidated ==
    [][(AbortedInThumbnails /\ runs' = runs + 1)
          => (confirmed'.cleared /\ ThumbsOf(thumbs_archive'.members) = {})]_vars

(***************************************************************************)
(* Thumbs served across output profiles                                    *)
(***************************************************************************)
\* C27: every thumb that a generate_thumbnail call serves from the archive
\* has the width (and with it the height, 1.33 times the width) that the
\* run hands to thumbnail(): the dpi of opts.output_profile times
\* opts.thumb_width.
C27_HitsHaveTheRequestedSize ==
    \A i \in 1..Len(calls) :
        calls[i].hit => calls[i].px = ThumbPixels(opts.output_profile, opts.thumb_width)

(***************************************************************************)
(* The default thumb                                                       *)
(***************************************************************************)
\* the loop of generate_thumbnails is through
ThumbnailLoopDone ==
    /\ books_by_title # <<>>
    /\ title_index = Len(books_by_title)
    /\ pc \notin {"idle", "fetch_books_by_title", "fetch_books_by_author"}

\* C28: when the loop of generate_thumbnails is through and the cover of
\* some title was cleared, so that its page shows thumbnail_default.jpg,
\* the images directory holds thumbnail_default.jpg.
C28_DefaultThumbExists ==
    (ThumbnailLoopDone /\ cover_none # {}) => DefaultThumbFile \in images

\* p <= q for fractions <<n, d>> with d > 0
FractionLeq(p, q) == p[1] * q[2] <= q[1] * p[2]

(***************************************************************************)
(* C29: during build_sources the fraction handed to the reporter by        *)
(* update_progress_full_step and update_progress_micro_step lies in        *)
(* [0, 1], that is, the full steps taken never exceed total_steps as       *)
(* compute_total_steps set it, with or without the Series section.         *)
(***************************************************************************)
C29_ProgressIsAFraction ==
    /\ current_step <= total_steps
    /\ FractionLeq(<<0, 1>>, progress_int)
    /\ FractionLeq(progress_int, <<1, 1>>)

(***************************************************************************)
(* C30: every tag carried by a book of books_to_catalog is a key of        *)
(* genre_tags_dict, so that no description page fails on a missing genre   *)
(* key.                                                                    *)
(***************************************************************************)
C30_EveryTagIsAGenreKey ==
    /\ \A i \in 1..Len(books_to_catalog) :
            books_to_catalog[i].tags \subseteq DOMAIN genre_tags_dict
    /\ exception # "KeyError"

====
